---- MODULE Spec2Model ----
(***************************************************************************)
(* A model of the rules engine of ynab_rules: Condition, Action, Rule,     *)
(* RuleStorage (the rules file) and RulesEngine.                           *)
(*                                                                         *)
(* Texts are sequences of one-character strings.  Python values are        *)
(* records [t, s, n]: a str, an int or None; Missing marks a key that a    *)
(* dict does not hold.  A call that can raise returns [exc, val].  Where   *)
(* it matters which dict object a call writes to, dicts live in a heap and *)
(* are passed by reference.                                                *)
(*                                                                         *)
(* The texts of the model are written over the characters a-z, A-Z, 0-9,   *)
(* the space, "(", "{" and "}": of the syntax of float() and of            *)
(* re.compile() the operators below model what such texts can spell.       *)
(***************************************************************************)
EXTENDS Integers, Sequences, FiniteSets, TLC

VARIABLES
    storage,              \* RuleStorage: the rule records of the rules file, in file order
    transaction,          \* the record passed to the call in progress
    pc,                   \* where the call in progress stands
    rules,                \* process_transaction: the local `rules`
    idx,                  \* process_transaction: position of the for loop in `rules`
    modified_transaction, \* process_transaction: the local `modified_transaction`
    applied_rules,        \* process_transaction: the local `applied_rules`
    visited,              \* history: <<rule, record it was evaluated against>> per evaluated rule
    previous,             \* history: the input and the result of the call before this one
    subject,              \* the Condition, Action or Rule a direct call is made on
    result,               \* what the finished call returned: [exc, val]
    heap,                 \* the dict objects of a call made on objects: heap[r] is what object r holds
    updates               \* App: the changes _apply_transaction_changes has handled

vars == <<storage, transaction, pc, rules, idx, modified_transaction,
          applied_rules, visited, previous, subject, result, heap, updates>>

----------------------------------------------------------------------------
(* Python values *)

StrV(s) == [t |-> "str", s |-> s, n |-> 0]
IntV(n) == [t |-> "int", s |-> <<>>, n |-> n]
None == [t |-> "none", s |-> <<>>, n |-> 0]
Missing == [t |-> "missing", s |-> <<>>, n |-> 0]

Ret(v) == [exc |-> FALSE, val |-> v]
Raise == [exc |-> TRUE, val |-> FALSE]

UpperCase == <<"A","B","C","D","E","F","G","H","I","J","K","L","M",
               "N","O","P","Q","R","S","T","U","V","W","X","Y","Z">>
LowerCase == <<"a","b","c","d","e","f","g","h","i","j","k","l","m",
               "n","o","p","q","r","s","t","u","v","w","x","y","z">>
DigitChars == <<"0","1","2","3","4","5","6","7","8","9">>

\* str.lower() on one character
LowerChar(c) ==
    IF \E i \in 1..26 : UpperCase[i] = c
    THEN LowerCase[CHOOSE i \in 1..26 : UpperCase[i] = c]
    ELSE c

\* str.lower()
Lower(s) == [i \in 1..Len(s) |-> LowerChar(s[i])]

\* `sub in s`
Contains(sub, s) ==
    \E i \in 0..(Len(s) - Len(sub)) : SubSeq(s, i + 1, i + Len(sub)) = sub

\* s.startswith(p), s.endswith(p)
StartsWith(s, p) == Len(p) <= Len(s) /\ SubSeq(s, 1, Len(p)) = p
EndsWith(s, p) == Len(p) <= Len(s) /\ SubSeq(s, Len(s) - Len(p) + 1, Len(s)) = p

\* the decimal digits of a natural number
RECURSIVE NatDigits(_)
NatDigits(n) ==
    IF n < 10 THEN <<DigitChars[n + 1]>>
    ELSE NatDigits(n \div 10) \o <<DigitChars[(n % 10) + 1]>>

\* str(v)
PyStr(v) ==
    CASE v.t = "str" -> v.s
      [] v.t = "int" -> IF v.n < 0 THEN <<"-">> \o NatDigits(-v.n) ELSE NatDigits(v.n)
      [] OTHER -> <<"N","o","n","e">>

\* bool(v) of a str
Truthy(s) == Len(s) > 0

IsDigit(c) == \E i \in 1..10 : DigitChars[i] = c
DigitValue(c) == (CHOOSE i \in 1..10 : DigitChars[i] = c) - 1
AllDigits(s) == Len(s) > 0 /\ \A i \in 1..Len(s) : IsDigit(s[i])

RECURSIVE DigitsNat(_)
DigitsNat(s) ==
    IF Len(s) = 0 THEN 0
    ELSE 10 * DigitsNat(SubSeq(s, 1, Len(s) - 1)) + DigitValue(s[Len(s)])

RECURSIVE Pow10(_)
Pow10(k) == IF k = 0 THEN 1 ELSE 10 * Pow10(k - 1)

\* str.strip(): float() ignores surrounding whitespace
RECURSIVE Strip(_)
Strip(s) ==
    IF Len(s) > 0 /\ s[1] = " " THEN Strip(Tail(s))
    ELSE IF Len(s) > 0 /\ s[Len(s)] = " " THEN Strip(SubSeq(s, 1, Len(s) - 1))
    ELSE s

Fin(n) == [ok |-> TRUE, kind |-> "fin", n |-> n]
Inf == [ok |-> TRUE, kind |-> "inf", n |-> 0]
NaN == [ok |-> TRUE, kind |-> "nan", n |-> 0]
NoFloat == [ok |-> FALSE, kind |-> "err", n |-> 0]

\* float(text): digits, digits "e" digits, inf, infinity, nan; else ValueError
FloatOfText(s) ==
    LET b == Lower(Strip(s))
        exps == {i \in 1..Len(b) : b[i] = "e"
                    /\ AllDigits(SubSeq(b, 1, i - 1))
                    /\ AllDigits(SubSeq(b, i + 1, Len(b)))}
    IN  IF AllDigits(b) THEN Fin(DigitsNat(b))
        ELSE IF b = <<"n","a","n">> THEN NaN
        ELSE IF b = <<"i","n","f">> \/ b = <<"i","n","f","i","n","i","t","y">> THEN Inf
        ELSE IF exps # {}
             THEN LET i == CHOOSE j \in exps : TRUE
                  IN  Fin(DigitsNat(SubSeq(b, 1, i - 1))
                          * Pow10(DigitsNat(SubSeq(b, i + 1, Len(b)))))
        ELSE NoFloat

\* float(v): ValueError for a text that is no number, TypeError for None
PyFloat(v) ==
    CASE v.t = "str" -> FloatOfText(v.s)
      [] v.t = "int" -> Fin(v.n)
      [] OTHER -> NoFloat

\* a > b on floats
FloatGT(a, b) ==
    CASE a.kind = "nan" \/ b.kind = "nan" -> FALSE
      [] a.kind = "inf" -> b.kind # "inf"
      [] b.kind = "inf" -> FALSE
      [] OTHER -> a.n > b.n

(* re.compile(p, re.IGNORECASE) on a text of letters, digits, spaces, "(", "{"  *)
(* and "}".  A letter, a digit, a space and "}" are literals.  "{" opens a     *)
(* repeat when digits and "}" follow it, and is a literal otherwise.  "(" opens *)
(* a group that these texts cannot close.                                     *)

\* sre's MAXREPEAT, 4294967295, as decimal digits
MaxRepeatDigits == <<"4","2","9","4","9","6","7","2","9","5">>

RECURSIVE StripZeros(_)
StripZeros(d) == IF Len(d) > 1 /\ d[1] = "0" THEN StripZeros(Tail(d)) ELSE d

RECURSIVE DigitsLess(_, _)
\* a < b for digit sequences of one length
DigitsLess(a, b) ==
    IF Len(a) = 0 THEN FALSE
    ELSE IF a[1] # b[1] THEN DigitValue(a[1]) < DigitValue(b[1])
    ELSE DigitsLess(Tail(a), Tail(b))

\* int(lo) >= MAXREPEAT
RepeatTooLarge(lo) ==
    LET d == StripZeros(lo)
    IN  \/ Len(d) > Len(MaxRepeatDigits)
        \/ Len(d) = Len(MaxRepeatDigits) /\ ~DigitsLess(d, MaxRepeatDigits)

\* the end of the run of digits that starts at position i
RECURSIVE DigitRunEnd(_, _)
DigitRunEnd(p, i) ==
    IF i <= Len(p) /\ IsDigit(p[i]) THEN DigitRunEnd(p, i + 1) ELSE i

(* _parser._parse from position i.  items: the parsed <<character, repeat     *)
(* digits>> so far; prev: "none" at the start of a (sub)pattern, "lit" after a *)
(* literal, "rep" after a repeat; open: a group is open.  Returns              *)
(* [status, items], status being "ok", "error" (re.error) or "overflow"        *)
(* (OverflowError).                                                            *)
RECURSIVE RegexParse(_, _, _, _, _)
RegexParse(p, i, items, prev, open) ==
    IF i > Len(p)
    THEN [status |-> IF open THEN "error" ELSE "ok", items |-> items]
    ELSE IF p[i] = "("
    THEN RegexParse(p, i + 1, items, "none", TRUE)
    ELSE IF p[i] = "{"
    THEN LET j == DigitRunEnd(p, i + 1)
             lo == SubSeq(p, i + 1, j - 1)
         IN  IF j = i + 1 \/ j > Len(p) \/ p[j] # "}"
             THEN RegexParse(p, i + 1, Append(items, <<"{", <<"1">> >>), "lit", open)
             ELSE IF RepeatTooLarge(lo)
             THEN [status |-> "overflow", items |-> items]
             ELSE IF prev # "lit"
             THEN [status |-> "error", items |-> items]
             ELSE RegexParse(p, j + 1,
                             [items EXCEPT ![Len(items)] = <<items[Len(items)][1], StripZeros(lo)>>],
                             "rep", open)
    ELSE RegexParse(p, i + 1, Append(items, <<p[i], <<"1">> >>), "lit", open)

RegexCompile(p) == RegexParse(p, 1, <<>>, "none", FALSE)

\* a repeat count above n
CountAbove(d, n) == Len(d) > 9 \/ DigitsNat(d) > n

RECURSIVE Repeated(_, _)
Repeated(c, k) == IF k = 0 THEN <<>> ELSE <<c>> \o Repeated(c, k - 1)

\* the one text a compiled pattern of repeated literals matches
RECURSIVE Expand(_)
Expand(items) ==
    IF Len(items) = 0 THEN <<>>
    ELSE Repeated(items[1][1], DigitsNat(items[1][2])) \o Expand(Tail(items))

\* pattern.search(s) under re.IGNORECASE
RegexSearch(items, s) ==
    /\ \A k \in 1..Len(items) : ~CountAbove(items[k][2], Len(s))
    /\ Contains(Lower(Expand(items)), Lower(s))

----------------------------------------------------------------------------
(* Transaction records: dicts over the keys below *)

Keys == {"id", "payee_id", "payee_name", "account_name", "outflow", "inflow", "memo",
         "category_name"}

ConditionField == {"payee_name", "account_name", "outflow", "inflow", "memo", "category_name"}
ConditionOperator == {"equals", "contains", "starts_with", "ends_with",
                      "greater_than", "less_than", "regex"}
ActionField == {"payee_name", "category_name", "memo"}
ActionOperation == {"set", "append", "prepend", "clear"}

EmptyTransaction == [k \in Keys |-> Missing]

\* dict.get(key): None when the key is missing
DictGet(d, key) == IF d[key] = Missing THEN None ELSE d[key]

\* dict.get(key, default)
DictGetDefault(d, key, default) == IF d[key] = Missing THEN default ELSE d[key]

----------------------------------------------------------------------------
(* condition.py *)

\* Condition.evaluate, lines 62-98: the comparison by operator, on a value that is present
ConditionCompare(c, tv) ==
    CASE c.operator = "equals" -> Ret(Lower(PyStr(tv)) = Lower(PyStr(c.value)))
      [] c.operator = "contains" -> Ret(Contains(Lower(PyStr(c.value)), Lower(PyStr(tv))))
      [] c.operator = "starts_with" -> Ret(StartsWith(Lower(PyStr(tv)), Lower(PyStr(c.value))))
      [] c.operator = "ends_with" -> Ret(EndsWith(Lower(PyStr(tv)), Lower(PyStr(c.value))))
      [] c.operator = "greater_than" ->
            \* ValueError and TypeError of float() are caught
            LET a == PyFloat(tv)
                b == PyFloat(c.value)
            IN  IF a.ok /\ b.ok THEN Ret(FloatGT(a, b)) ELSE Ret(FALSE)
      [] c.operator = "less_than" ->
            LET a == PyFloat(tv)
                b == PyFloat(c.value)
            IN  IF a.ok /\ b.ok THEN Ret(FloatGT(b, a)) ELSE Ret(FALSE)
      [] c.operator = "regex" ->
            \* re.compile(value) of a value that is no str raises TypeError,
            \* and only re.error is caught
            \* and so does a repeat of MAXREPEAT or more (OverflowError)
            IF c.value.t # "str" THEN Raise
            ELSE LET pattern == RegexCompile(c.value.s)
                 IN  CASE pattern.status = "overflow" -> Raise
                       [] pattern.status = "error" -> Ret(FALSE)
                       [] OTHER -> Ret(RegexSearch(pattern.items, PyStr(tv)))
      [] OTHER -> Ret(FALSE)

\* Condition.evaluate with the `is None` test of lines 58-59 left out
ConditionEvaluateNoNoneTest(c, t) == ConditionCompare(c, DictGet(t, c.field))

\* Condition.evaluate
ConditionEvaluate(c, t) ==
    LET transaction_value == DictGet(t, c.field)
    IN  IF transaction_value = None THEN Ret(FALSE)
        ELSE ConditionCompare(c, transaction_value)

----------------------------------------------------------------------------
(* action.py *)

\* Action.apply leaving alone a field that already carries the text to append
\* or prepend
ActionApplyOnce(a, t) ==
    LET current_value == PyStr(DictGetDefault(t, a.field, StrV(<<>>)))
    IN  CASE a.operation = "set" -> [t EXCEPT ![a.field] = a.value]
          [] a.operation = "append" ->
                IF Truthy(current_value)
                THEN IF EndsWith(current_value, PyStr(a.value)) THEN t
                     ELSE [t EXCEPT ![a.field] = StrV(current_value \o <<" ">> \o PyStr(a.value))]
                ELSE [t EXCEPT ![a.field] = a.value]
          [] a.operation = "prepend" ->
                IF Truthy(current_value)
                THEN IF StartsWith(current_value, PyStr(a.value)) THEN t
                     ELSE [t EXCEPT ![a.field] = StrV(PyStr(a.value) \o <<" ">> \o current_value)]
                ELSE [t EXCEPT ![a.field] = a.value]
          [] a.operation = "clear" -> [t EXCEPT ![a.field] = StrV(<<>>)]
          [] OTHER -> t

\* Action.apply joining the texts of append and prepend with no space between
ActionApplyNoSpace(a, t) ==
    LET current_value == PyStr(DictGetDefault(t, a.field, StrV(<<>>)))
    IN  CASE a.operation = "set" -> [t EXCEPT ![a.field] = a.value]
          [] a.operation = "append" ->
                IF Truthy(current_value)
                THEN [t EXCEPT ![a.field] = StrV(current_value \o PyStr(a.value))]
                ELSE [t EXCEPT ![a.field] = a.value]
          [] a.operation = "prepend" ->
                IF Truthy(current_value)
                THEN [t EXCEPT ![a.field] = StrV(PyStr(a.value) \o current_value)]
                ELSE [t EXCEPT ![a.field] = a.value]
          [] a.operation = "clear" -> [t EXCEPT ![a.field] = StrV(<<>>)]
          [] OTHER -> t

\* Action.apply
ActionApply(a, t) ==
    LET current_value == PyStr(DictGetDefault(t, a.field, StrV(<<>>)))
    IN  CASE a.operation = "set" -> [t EXCEPT ![a.field] = a.value]
          [] a.operation = "append" ->
                IF Truthy(current_value)
                THEN [t EXCEPT ![a.field] = StrV(current_value \o <<" ">> \o PyStr(a.value))]
                ELSE [t EXCEPT ![a.field] = a.value]
          [] a.operation = "prepend" ->
                IF Truthy(current_value)
                THEN [t EXCEPT ![a.field] = StrV(PyStr(a.value) \o <<" ">> \o current_value)]
                ELSE [t EXCEPT ![a.field] = a.value]
          [] a.operation = "clear" -> [t EXCEPT ![a.field] = StrV(<<>>)]
          [] OTHER -> t

----------------------------------------------------------------------------
(* rule.py *)

\* all(condition.evaluate(transaction) for ...) from condition k on: stops at the
\* first condition that is false, and at one that raises
RECURSIVE AllConditions(_, _, _)
AllConditions(conditions, t, k) ==
    IF k > Len(conditions) THEN Ret(TRUE)
    ELSE LET r == ConditionEvaluate(conditions[k], t)
         IN  IF r.exc THEN Raise
             ELSE IF ~r.val THEN Ret(FALSE)
             ELSE AllConditions(conditions, t, k + 1)

\* any(condition.evaluate(transaction) for ...) from condition k on: stops at the
\* first condition that is true, and at one that raises
RECURSIVE AnyCondition(_, _, _)
AnyCondition(conditions, t, k) ==
    IF k > Len(conditions) THEN Ret(FALSE)
    ELSE LET r == ConditionEvaluate(conditions[k], t)
         IN  IF r.exc THEN Raise
             ELSE IF r.val THEN Ret(TRUE)
             ELSE AnyCondition(conditions, t, k + 1)

\* Rule.evaluate
RuleEvaluate(rule, t) ==
    IF Len(rule.conditions) = 0 THEN Ret(FALSE)
    ELSE IF rule.logic_operator = "and" THEN AllConditions(rule.conditions, t, 1)
    ELSE AnyCondition(rule.conditions, t, 1)

\* ApplyActions giving every action the record the rule was called with, so
\* that the result is the last action's alone
ApplyActionsUnthreaded(actions, t, k) ==
    IF Len(actions) = 0 THEN t ELSE ActionApply(actions[Len(actions)], t)

\* Rule.apply, lines 75-76: the loop over the actions from action k on
RECURSIVE ApplyActions(_, _, _)
ApplyActions(actions, t, k) ==
    IF k > Len(actions) THEN t
    ELSE ApplyActions(actions, ActionApply(actions[k], t), k + 1)

\* Rule.apply
RuleApply(rule, t) ==
    LET matches == RuleEvaluate(rule, t)
    IN  IF matches.exc THEN Raise
        ELSE IF ~matches.val THEN Ret(t)
        ELSE Ret(ApplyActions(rule.actions, t, 1))

\* Condition.from_dict, Action.from_dict
ConditionFromDict(d) == [field |-> d.field, operator |-> d.operator, value |-> d.value]
ActionFromDict(d) == [field |-> d.field, operation |-> d.operation, value |-> d.value]

\* Rule.from_dict
RuleFromDict(d) ==
    [id |-> d.id, name |-> d.name, description |-> d.description,
     conditions |-> [k \in 1..Len(d.conditions) |-> ConditionFromDict(d.conditions[k])],
     actions |-> [k \in 1..Len(d.actions) |-> ActionFromDict(d.actions[k])],
     enabled |-> d.enabled, priority |-> d.priority,
     logic_operator |-> d.logic_operator]

----------------------------------------------------------------------------
(* storage.py *)

\* RuleStorage.get_all_rules
GetAllRules(file) == [k \in 1..Len(file) |-> RuleFromDict(file[k])]

\* RuleStorage.save_rule: the first record of the rule's id is replaced, a rule
\* of a new id is added at the end
SaveRule(file, rule) ==
    IF \E i \in 1..Len(file) : file[i].id = rule.id
    THEN LET i == CHOOSE i \in 1..Len(file) :
                      /\ file[i].id = rule.id
                      /\ \A j \in 1..(i - 1) : file[j].id # rule.id
         IN  [file EXCEPT ![i] = rule]
    ELSE Append(file, rule)

\* RuleStorage.delete_rule
DeleteRule(file, rule_id) == SelectSeq(file, LAMBDA r : r.id # rule_id)

----------------------------------------------------------------------------
(* rules_engine.py *)

\* InsertRule sorting lowest first (reverse=True left out)
RECURSIVE InsertRuleAscending(_, _)
InsertRuleAscending(sorted, r) ==
    IF Len(sorted) = 0 THEN <<r>>
    ELSE IF Head(sorted).priority <= r.priority
    THEN <<Head(sorted)>> \o InsertRuleAscending(Tail(sorted), r)
    ELSE <<r>> \o sorted

\* InsertRule putting a rule before the rules of its own priority (a sort that
\* is not stable)
RECURSIVE InsertRuleBeforeEqual(_, _)
InsertRuleBeforeEqual(sorted, r) ==
    IF Len(sorted) = 0 THEN <<r>>
    ELSE IF Head(sorted).priority > r.priority
    THEN <<Head(sorted)>> \o InsertRuleBeforeEqual(Tail(sorted), r)
    ELSE <<r>> \o sorted

\* sorted(): where a rule goes among rules already sorted by priority, highest
\* first; it goes behind the rules of its own priority
RECURSIVE InsertRule(_, _)
InsertRule(sorted, r) ==
    IF Len(sorted) = 0 THEN <<r>>
    ELSE IF Head(sorted).priority >= r.priority
    THEN <<Head(sorted)>> \o InsertRule(Tail(sorted), r)
    ELSE <<r>> \o sorted

\* sorted(rules, key=lambda r: r.priority, reverse=True)
RECURSIVE SortedByPriority(_)
SortedByPriority(rs) ==
    IF Len(rs) = 0 THEN <<>>
    ELSE InsertRule(SortedByPriority(SubSeq(rs, 1, Len(rs) - 1)), rs[Len(rs)])

\* RulesEngine.load_rules
LoadRules(file) == SortedByPriority(GetAllRules(file))

\* RuleSkipped with the test of `enabled` left out
RuleSkippedNever(rule) == FALSE

\* process_transaction, lines 59-60: the rule is passed over
RuleSkipped(rule) == ~rule.enabled

\* RecordChanged with the comparison left out: every matching rule is recorded
RecordChangedAlways(before, after) == TRUE

\* RecordChanged comparing the memo alone, not the whole record
RecordChangedMemo(before, after) == after["memo"] # before["memo"]

\* process_transaction, line 69: modified_transaction != before_transaction
RecordChanged(before, after) == after # before

----------------------------------------------------------------------------
(* The same calls made on dict objects: h is the heap, r the reference of  *)
(* the dict passed in; a call returns the heap it leaves and the reference *)
(* of the dict it returns.                                                 *)

\* DictCopy handing back the object itself instead of a copy of it
DictCopyAlias(h, r) == [heap |-> h, ref |-> r]

\* DictCopy giving a new empty dict: the keys of r are lost
DictCopyEmpty(h, r) == [heap |-> Append(h, EmptyTransaction), ref |-> Len(h) + 1]

\* dict.copy(): a new object holding what r holds
DictCopy(h, r) == [heap |-> Append(h, h[r]), ref |-> Len(h) + 1]

\* Action.apply, lines 55-73: the assignments, made to the copy c
WrittenTo(c, a) ==
    [heap |-> [c.heap EXCEPT ![c.ref] = ActionApply(a, c.heap[c.ref])], ref |-> c.ref]

\* Action.apply
ActionApplyOnHeap(h, a, r) == WrittenTo(DictCopy(h, r), a)

\* Rule.apply, lines 75-76, from action k on; o is the heap and the reference
\* of modified_transaction
RECURSIVE ApplyActionsOnHeap(_, _, _)
ApplyActionsOnHeap(o, actions, k) ==
    IF k > Len(actions) THEN o
    ELSE ApplyActionsOnHeap(ActionApplyOnHeap(o.heap, actions[k], o.ref), actions, k + 1)

Returned(o) == [exc |-> FALSE, heap |-> o.heap, ref |-> o.ref]

\* Rule.apply, lines 70-78, matches being what self.evaluate gave: the dict
\* passed in is returned itself when the rule does not match
RuleApplyWhen(matches, h, rule, r) ==
    IF matches.exc THEN [exc |-> TRUE, heap |-> h, ref |-> r]
    ELSE IF ~matches.val THEN [exc |-> FALSE, heap |-> h, ref |-> r]
    ELSE Returned(ApplyActionsOnHeap(DictCopy(h, r), rule.actions, 1))

\* Rule.apply
RuleApplyOnHeap(h, rule, r) == RuleApplyWhen(RuleEvaluate(rule, h[r]), h, rule, r)

\* process_transaction, lines 69-70; e is the state of the loop: the heap, the
\* reference of modified_transaction, applied_rules, and whether a call raised
RuleRecorded(before, after, e, rule) ==
    [exc |-> after.exc, heap |-> after.heap, ref |-> after.ref,
     applied |-> IF RecordChanged(after.heap[before.ref], after.heap[after.ref])
                 THEN Append(e.applied, rule.name) ELSE e.applied]

\* process_transaction, lines 65-66, before being the copy of line 65
RuleAppliedTo(before, e, rule) ==
    RuleRecorded(before, RuleApplyOnHeap(before.heap, rule, e.ref), e, rule)

\* process_transaction, lines 63-70, matches being what rule.evaluate gave
RuleStepWhen(matches, e, rule) ==
    IF matches.exc THEN [e EXCEPT !.exc = TRUE]
    ELSE IF ~matches.val THEN e
    ELSE RuleAppliedTo(DictCopy(e.heap, e.ref), e, rule)

\* process_transaction, lines 59-70: the body of the loop for one rule
RuleStep(e, rule) ==
    IF RuleSkipped(rule) THEN e
    ELSE RuleStepWhen(RuleEvaluate(rule, e.heap[e.ref]), e, rule)

\* process_transaction, lines 57-71, from rule k on
RECURSIVE RunRulesOnHeap(_, _, _)
RunRulesOnHeap(e, rs, k) ==
    IF e.exc \/ k > Len(rs) THEN e
    ELSE RunRulesOnHeap(RuleStep(e, rs[k]), rs, k + 1)

\* process_transaction, lines 54-55
LoopStart(c) == [exc |-> FALSE, heap |-> c.heap, ref |-> c.ref, applied |-> <<>>]

\* RulesEngine.process_transaction
ProcessTransactionOnHeap(h, file, r) ==
    RunRulesOnHeap(LoopStart(DictCopy(h, r)), LoadRules(file), 1)

\* what process_transaction gives its caller: the record and the applied rules
Outcome(p) ==
    IF p.exc THEN Raise ELSE Ret([record |-> p.heap[p.ref], applied |-> p.applied])

\* process_transaction as a function of the rules file and the record
ProcessTransaction(file, t) == Outcome(ProcessTransactionOnHeap(<<t>>, file, 1))

\* the order in which a transaction dict is iterated: its keys are taken in
\* this order
KeyOrder == <<"id", "payee_id", "payee_name", "account_name", "outflow", "inflow",
              "memo", "category_name">>

\* _get_transaction_changes passing over the keys that only the modified record
\* holds
GetTransactionChangesCommonKeys(original, modified) ==
    LET in_both == SelectSeq(KeyOrder, LAMBDA k :
                       /\ modified[k] # Missing
                       /\ original[k] # Missing
                       /\ original[k] # modified[k])
    IN  [i \in 1..Len(in_both) |->
            [field |-> in_both[i],
             old_value |-> original[in_both[i]],
             new_value |-> modified[in_both[i]]]]

\* RulesEngine._get_transaction_changes
GetTransactionChanges(original, modified) ==
    LET in_modified == SelectSeq(KeyOrder, LAMBDA k :
                           /\ modified[k] # Missing
                           /\ original[k] # modified[k])
        removed == SelectSeq(KeyOrder, LAMBDA k :
                           original[k] # Missing /\ modified[k] = Missing)
    IN  [i \in 1..Len(in_modified) |->
            [field |-> in_modified[i],
             old_value |-> DictGet(original, in_modified[i]),
             new_value |-> modified[in_modified[i]]]]
        \o
        [i \in 1..Len(removed) |->
            [field |-> removed[i], old_value |-> original[removed[i]], new_value |-> None]]

unknown == <<"u","n","k","n","o","w","n">>

\* ReportInit reporting every run as a dry run
ReportInitAlwaysDry(transactions, dry_run) ==
    [total_transactions |-> Len(transactions),
     modified_transactions |-> 0,
     rules_applied |-> <<>>,
     modifications |-> <<>>,
     dry_run |-> TRUE]

\* process_transactions, lines 90-96
ReportInit(transactions, dry_run) ==
    [total_transactions |-> Len(transactions),
     modified_transactions |-> 0,
     rules_applied |-> <<>>,
     modifications |-> <<>>,
     dry_run |-> dry_run]

\* Increment noting that a name was applied, not how often
IncrementOnce(counts, name) ==
    [n \in DOMAIN counts \cup {name} |-> IF n = name THEN 1 ELSE counts[n]]

\* defaultdict(int): counts[name] += 1
Increment(counts, name) ==
    [n \in DOMAIN counts \cup {name} |->
        IF n = name THEN (IF name \in DOMAIN counts THEN counts[name] ELSE 0) + 1
        ELSE counts[n]]

\* process_transactions, lines 107-108, from name k on
RECURSIVE CountRules(_, _, _)
CountRules(counts, applied, k) ==
    IF k > Len(applied) THEN counts
    ELSE CountRules(Increment(counts, applied[k]), applied, k + 1)

\* RecordModification putting the newest entry first
RecordModificationFirst(modifications, entry) == <<entry>> \o modifications

\* process_transactions, lines 113-118: results["modifications"].append(...)
RecordModification(modifications, entry) == Append(modifications, entry)

\* process_transactions, lines 104-108
Counted(results, applied) ==
    [results EXCEPT !.modified_transactions = @ + 1,
                    !.rules_applied = CountRules(@, applied, 1)]

\* process_transactions, lines 112-118, changes being what
\* _get_transaction_changes gave
ProcessOneChanged(changes, p, results, r) ==
    IF changes = <<>> THEN [exc |-> FALSE, heap |-> p.heap, results |-> Counted(results, p.applied)]
    ELSE [exc |-> FALSE, heap |-> p.heap,
          results |-> [Counted(results, p.applied) EXCEPT
              !.modifications = RecordModification(@,
                  [transaction_id |-> DictGetDefault(p.heap[r], "id", StrV(unknown)),
                   payee_name |-> DictGetDefault(p.heap[r], "payee_name", StrV(unknown)),
                   applied_rules |-> p.applied,
                   changes |-> changes])]]

\* process_transactions, lines 103-118, p being what process_transaction gave
ProcessOneWhen(p, original, results, r) ==
    IF p.exc THEN [exc |-> TRUE, heap |-> p.heap, results |-> results]
    ELSE IF p.applied = <<>> THEN [exc |-> FALSE, heap |-> p.heap, results |-> results]
    ELSE ProcessOneChanged(GetTransactionChanges(p.heap[original.ref], p.heap[p.ref]),
                           p, results, r)

\* process_transactions, lines 100-118, original being the copy of line 99
ProcessOneFrom(original, file, results, r) ==
    ProcessOneWhen(ProcessTransactionOnHeap(original.heap, file, r), original, results, r)

\* process_transactions, lines 99-118: the body of the loop for transaction r
ProcessOne(h, file, results, r) == ProcessOneFrom(DictCopy(h, r), file, results, r)

\* process_transactions, line 98: the loop from transaction k on; b is the heap
\* and the results so far
RECURSIVE ProcessBatch(_, _, _, _)
ProcessBatch(b, file, refs, k) ==
    IF b.exc \/ k > Len(refs) THEN b
    ELSE ProcessBatch(ProcessOne(b.heap, file, b.results, refs[k]), file, refs, k + 1)

\* RulesEngine.process_transactions
ProcessTransactionsOnHeap(h, file, refs, dry_run) ==
    ProcessBatch([exc |-> FALSE, heap |-> h, results |-> ReportInit(refs, dry_run)],
                 file, refs, 1)

----------------------------------------------------------------------------
(* The inputs of the model *)

\* the most rules the rules file holds
MaxRules == 2

Uber == <<"U","b","e","r">>
uber == <<"u","b","e","r">>
Lyft == <<"L","y","f","t">>
Transport == <<"T","r","a","n","s","p","o","r","t">>
\* a pattern whose repeat count is MAXREPEAT
HugeRepeat == <<"x","{","4","2","9","4","9","6","7","2","9","5","}">>

Condition(f, op, v) == [field |-> f, operator |-> op, value |-> v]
Action(f, op, v) == [field |-> f, operation |-> op, value |-> v]

\* the id and the name of the k-th rule of the file
RuleId(k) == <<"i","d">> \o NatDigits(k)
RuleName(k) == <<"r","u","l","e">> \o NatDigits(k)

EngineConditions ==
    { Condition("memo", "equals", StrV(<<"x">>)),
      Condition("memo", "equals", StrV(<<"y">>)),
      Condition("payee_name", "contains", StrV(uber)),
      Condition("memo", "regex", StrV(HugeRepeat)) }

EngineActions ==
    { Action("memo", "set", StrV(<<"x">>)),
      Action("memo", "set", StrV(<<"y">>)),
      Action("memo", "clear", StrV(<<>>)),
      Action("category_name", "set", StrV(Transport)) }

RuleBody(c, a, e, p) ==
    [conditions |-> <<c>>, actions |-> <<a>>, enabled |-> e, priority |-> p,
     logic_operator |-> "and"]

\* what a stored rule holds besides its id and name
EngineRules ==
    { RuleBody(c, a, TRUE, p) : c \in EngineConditions, a \in EngineActions, p \in {5, 10} }
    \cup { RuleBody(Condition("payee_name", "contains", StrV(uber)),
                    Action("memo", "set", StrV(<<"y">>)), FALSE, 10),
           RuleBody(Condition("memo", "equals", StrV(<<"x">>)),
                    Action("category_name", "set", StrV(Transport)), FALSE, 5) }

\* the record Rule.to_dict gives for the k-th rule of the file
StoredRule(b, k) ==
    [id |-> RuleId(k), name |-> RuleName(k), description |-> <<>>,
     conditions |-> b.conditions, actions |-> b.actions, enabled |-> b.enabled,
     priority |-> b.priority, logic_operator |-> b.logic_operator]

EngineTransactions ==
    { [EmptyTransaction EXCEPT !["id"] = StrV(<<"t","1">>), !["payee_name"] = StrV(Uber),
                               !["memo"] = StrV(<<"x">>), !["outflow"] = IntV(10)],
      [EmptyTransaction EXCEPT !["id"] = StrV(<<"t","2">>), !["payee_name"] = StrV(Uber)],
      [EmptyTransaction EXCEPT !["id"] = StrV(<<"t","3">>), !["payee_name"] = StrV(Lyft),
                               !["memo"] = StrV(<<"Y">>), !["category_name"] = None] }

NoCall == <<>>
NoResult == [exc |-> FALSE, val |-> <<>>]

----------------------------------------------------------------------------
(* RulesEngine.process_transaction, rule by rule, called a second time on   *)
(* the record the first call returned                                       *)

Init ==
    /\ \E n \in 0..MaxRules : \E f \in [1..n -> EngineRules] :
           storage = [k \in 1..n |-> StoredRule(f[k], k)]
    /\ transaction \in EngineTransactions
    /\ pc = "start"
    /\ rules = <<>>
    /\ idx = 0
    /\ modified_transaction = EmptyTransaction
    /\ applied_rules = <<>>
    /\ visited = <<>>
    /\ previous = NoCall
    /\ subject = NoCall
    /\ result = NoResult
    /\ heap = <<>>
    /\ updates = <<>>

\* lines 53-55
LoadRulesStep ==
    /\ pc = "start"
    /\ rules' = LoadRules(storage)
    /\ modified_transaction' = transaction
    /\ applied_rules' = <<>>
    /\ idx' = 1
    /\ visited' = <<>>
    /\ pc' = "loop"
    /\ UNCHANGED <<storage, transaction, previous, subject, result, heap, updates>>

InLoop == pc = "loop" /\ idx <= Len(rules)

Visit == Append(visited, [rule |-> rules[idx], seen |-> modified_transaction])

\* lines 59-60: a rule that is not enabled
SkipDisabledRule ==
    /\ InLoop
    /\ RuleSkipped(rules[idx])
    /\ idx' = idx + 1
    /\ UNCHANGED <<storage, transaction, pc, rules, modified_transaction,
                   applied_rules, visited, previous, subject, result, heap, updates>>

\* RuleDoesNotMatch staying at the rule: the loop takes the same rule again
RuleDoesNotMatchRepeats ==
    /\ InLoop
    /\ ~RuleSkipped(rules[idx])
    /\ RuleEvaluate(rules[idx], modified_transaction) = Ret(FALSE)
    /\ idx' = idx
    /\ visited' = Visit
    /\ UNCHANGED <<storage, transaction, pc, rules, modified_transaction,
                   applied_rules, previous, subject, result, heap, updates>>

\* line 63: the rule does not match
RuleDoesNotMatch ==
    /\ InLoop
    /\ ~RuleSkipped(rules[idx])
    /\ RuleEvaluate(rules[idx], modified_transaction) = Ret(FALSE)
    /\ idx' = idx + 1
    /\ visited' = Visit
    /\ UNCHANGED <<storage, transaction, pc, rules, modified_transaction,
                   applied_rules, previous, subject, result, heap, updates>>

\* line 63: a condition of the rule raises, and so does process_transaction
RuleRaises ==
    /\ InLoop
    /\ ~RuleSkipped(rules[idx])
    /\ RuleEvaluate(rules[idx], modified_transaction).exc
    /\ visited' = Visit
    /\ result' = Raise
    /\ pc' = "raised"
    /\ UNCHANGED <<storage, transaction, rules, idx, modified_transaction,
                   applied_rules, previous, subject, heap, updates>>

\* lines 63-71: the rule matches and changes the record
RuleApplied ==
    /\ InLoop
    /\ ~RuleSkipped(rules[idx])
    /\ RuleEvaluate(rules[idx], modified_transaction) = Ret(TRUE)
    /\ LET before_transaction == modified_transaction
           after == RuleApply(rules[idx], modified_transaction).val
       IN  /\ RecordChanged(before_transaction, after)
           /\ modified_transaction' = after
           /\ applied_rules' = Append(applied_rules, rules[idx].name)
    /\ idx' = idx + 1
    /\ visited' = Visit
    /\ UNCHANGED <<storage, transaction, pc, rules, previous, subject, result, heap, updates>>

\* lines 63-69: the rule matches and leaves the record as it was
RuleLeavesRecord ==
    /\ InLoop
    /\ ~RuleSkipped(rules[idx])
    /\ RuleEvaluate(rules[idx], modified_transaction) = Ret(TRUE)
    /\ LET before_transaction == modified_transaction
           after == RuleApply(rules[idx], modified_transaction).val
       IN  /\ ~RecordChanged(before_transaction, after)
           /\ modified_transaction' = after
    /\ idx' = idx + 1
    /\ visited' = Visit
    /\ UNCHANGED <<storage, transaction, pc, rules, applied_rules, previous, subject, result, heap, updates>>

\* line 73
ReturnStep ==
    /\ pc = "loop"
    /\ idx > Len(rules)
    /\ result' = Ret([record |-> modified_transaction, applied |-> applied_rules])
    /\ pc' = "done"
    /\ UNCHANGED <<storage, transaction, rules, idx, modified_transaction,
                   applied_rules, visited, previous, subject, heap, updates>>

\* the caller passes the returned record to process_transaction again
ProcessAgain ==
    /\ pc = "done"
    /\ previous = NoCall
    /\ previous' = [transaction |-> transaction, result |-> result]
    /\ transaction' = result.val.record
    /\ pc' = "start"
    /\ rules' = <<>>
    /\ idx' = 0
    /\ modified_transaction' = EmptyTransaction
    /\ applied_rules' = <<>>
    /\ visited' = <<>>
    /\ UNCHANGED <<storage, subject, result, heap, updates>>

Next ==
    \/ LoadRulesStep
    \/ SkipDisabledRule
    \/ RuleDoesNotMatch
    \/ RuleRaises
    \/ RuleApplied
    \/ RuleLeavesRecord
    \/ ReturnStep
    \/ ProcessAgain

Spec == Init /\ [][Next]_vars

----------------------------------------------------------------------------
(* Properties of process_transaction, under Spec *)

Matched(e) == RuleEvaluate(e.rule, e.seen) = Ret(TRUE)
\* the record a visited rule left behind
LeftBy(e) == IF Matched(e) THEN ApplyActions(e.rule.actions, e.seen, 1) ELSE e.seen
MatchedAndChanged(e) == Matched(e) /\ LeftBy(e) # e.seen
NamesOf(es) == [k \in 1..Len(es) |-> es[k].rule.name]
Enabled(rs) == SelectSeq(rs, LAMBDA r : r.enabled)

\* C1: the enabled rules are evaluated in descending priority, the first against
\* the record passed in and each later one against the record the rule before
\* it left behind, so never against the original once an earlier rule changed it
C1_PriorityOrder ==
    /\ \A i, j \in 1..Len(visited) :
           i < j => visited[i].rule.priority >= visited[j].rule.priority
    /\ Len(visited) > 0 => visited[1].seen = transaction
    /\ \A j \in 2..Len(visited) : visited[j].seen = LeftBy(visited[j - 1])

\* the rule of priority 5 is stored first, the rule of priority 10 runs first and
\* changes the record, and only on the changed record does the rule of
\* priority 5 match
C1_Witness ==
    /\ pc = "done"
    /\ Len(storage) = 2
    /\ storage[1].priority = 5 /\ storage[2].priority = 10
    /\ Len(visited) = 2
    /\ visited[1].rule.id = storage[2].id /\ visited[2].rule.id = storage[1].id
    /\ MatchedAndChanged(visited[1])
    /\ RuleEvaluate(visited[2].rule, transaction) = Ret(FALSE)
    /\ MatchedAndChanged(visited[2])
    /\ \E c \in 1..Len(visited[2].rule.conditions) :
           visited[2].seen[visited[2].rule.conditions[c].field]
               # transaction[visited[2].rule.conditions[c].field]

\* the rule sets of the claim: every action is a set or a clear
OnlySetAndClear ==
    \A k \in 1..Len(storage) : \A a \in 1..Len(storage[k].actions) :
        storage[k].actions[a].operation \in {"set", "clear"}

Written(r) == {r.actions[a].field : a \in 1..Len(r.actions)}
Inspected(r) == {r.conditions[c].field : c \in 1..Len(r.conditions)}

\* no enabled rule writes a field that another enabled rule writes or inspects
IndependentRules ==
    \A i, j \in 1..Len(storage) :
        (i # j /\ storage[i].enabled /\ storage[j].enabled)
            => Written(storage[i]) \cap (Written(storage[j]) \cup Inspected(storage[j])) = {}

SecondPassDone == pc = "done" /\ previous # NoCall

\* C2 as claimed: with set and clear actions only, processing the record a pass
\* returned returns that record and no applied-rule names
C2_Idempotent ==
    (SecondPassDone /\ OnlySetAndClear)
        => /\ result.val.record = transaction
           /\ result.val.applied = <<>>

\* C2 as amended: so it is when, besides, no enabled rule writes a field that
\* another enabled rule writes or inspects
C2_IdempotentIndependent ==
    (SecondPassDone /\ OnlySetAndClear /\ IndependentRules)
        => /\ transaction = previous.result.val.record
           /\ result.val.record = transaction
           /\ result.val.applied = <<>>

\* two independent enabled rules both changed the record in the first pass and
\* both match again in the second
C2_Witness ==
    /\ SecondPassDone /\ OnlySetAndClear /\ IndependentRules
    /\ Len(previous.result.val.applied) = 2
    /\ Len(visited) = 2
    /\ \A k \in 1..2 : Matched(visited[k])
    /\ transaction # previous.transaction

\* C3: the applied-rule names are, in the order of processing, the names of the
\* enabled rules that matched the record they were given and left a record
\* that differs from it; every enabled rule is visited, each after the first
\* on the record the one before it left, and the record returned is the one
\* the last left
C3_AppliedRules ==
    /\ applied_rules = NamesOf(SelectSeq(visited, MatchedAndChanged))
    /\ \A j \in 2..Len(visited) : visited[j].seen = LeftBy(visited[j - 1])
    /\ pc = "done" =>
           /\ result.val.applied = NamesOf(SelectSeq(visited, MatchedAndChanged))
           /\ [k \in 1..Len(visited) |-> visited[k].rule] = Enabled(rules)
           /\ result.val.record =
                  IF Len(visited) = 0 THEN transaction ELSE LeftBy(visited[Len(visited)])

\* of two enabled rules that match, the first leaves the record equal and is
\* not listed, the second changes it and is
C3_Witness ==
    /\ pc = "done"
    /\ Len(visited) = 2
    /\ Matched(visited[1]) /\ ~MatchedAndChanged(visited[1])
    /\ MatchedAndChanged(visited[2])
    /\ result.val.applied = <<visited[2].rule.name>>

\* C4: load_rules returns the disabled rules with the enabled ones, and
\* process_transaction neither evaluates nor applies a disabled rule; with every
\* rule disabled it returns the record it was given and no applied-rule names
C4_DisabledNeverApplied ==
    /\ pc # "start" =>
           /\ Len(rules) = Len(storage)
           /\ \A k \in 1..Len(storage) : \E j \in 1..Len(rules) :
                  rules[j].id = storage[k].id /\ rules[j].enabled = storage[k].enabled
    /\ \A k \in 1..Len(visited) : visited[k].rule.enabled
    /\ \A a \in 1..Len(applied_rules) : \A j \in 1..Len(rules) :
           rules[j].name = applied_rules[a] => rules[j].enabled
    /\ (pc = "done" /\ \A k \in 1..Len(storage) : ~storage[k].enabled)
           => result.val = [record |-> transaction, applied |-> <<>>]

\* the only rules are disabled, and one of them would have matched the record
\* and changed it
C4_Witness ==
    /\ pc = "done"
    /\ Len(rules) >= 1
    /\ \A k \in 1..Len(rules) : ~rules[k].enabled
    /\ \E k \in 1..Len(rules) :
           MatchedAndChanged([rule |-> rules[k], seen |-> transaction])

\* the place of the rule of an id among the loaded rules
PlaceOf(id) == CHOOSE j \in 1..Len(rules) : rules[j].id = id

\* C5: load_rules returns every rule of the store once, highest priority first,
\* and rules of one priority in the order the store returned them
C5_LoadRulesSorted ==
    pc # "start" =>
        /\ Len(rules) = Len(storage)
        /\ \A k \in 1..Len(storage) :
               Cardinality({j \in 1..Len(rules) : rules[j] = RuleFromDict(storage[k])}) = 1
        /\ \A i, j \in 1..Len(rules) : i < j => rules[i].priority >= rules[j].priority
        /\ \A a, b \in 1..Len(storage) :
               (a < b /\ storage[a].priority = storage[b].priority)
                   => PlaceOf(storage[a].id) < PlaceOf(storage[b].id)

\* two stored rules of one priority, that differ, have been loaded
C5_Witness ==
    /\ pc = "loop"
    /\ Len(storage) = 2
    /\ storage[1].priority = storage[2].priority
    /\ storage[1].actions # storage[2].actions
    /\ rules[1].id = storage[1].id /\ rules[2].id = storage[2].id

----------------------------------------------------------------------------
(* Condition.evaluate called on one condition and one record *)

\* a record that holds every field
FullTransaction ==
    [k \in Keys |-> CASE k = "outflow" -> IntV(10)
                      [] k = "inflow" -> IntV(0)
                      [] k = "payee_name" -> StrV(Uber)
                      [] OTHER -> StrV(<<"x">>)]

ConditionValues ==
    { StrV(<<>>), StrV(<<"n">>), StrV(uber), StrV(<<"5">>), StrV(<<"1","e","1">>),
      StrV(<<"(">>), StrV(<<"x","{","2","}">>), StrV(HugeRepeat), IntV(5), None }

FieldValues ==
    { Missing, None, StrV(<<>>), StrV(Uber), StrV(<<"x","x">>), StrV(<<" ","7"," ">>),
      StrV(<<"n","a","n">>), IntV(7) }

NoEngine ==
    /\ storage = <<>>
    /\ rules = <<>>
    /\ idx = 0
    /\ modified_transaction = EmptyTransaction
    /\ applied_rules = <<>>
    /\ visited = <<>>
    /\ previous = NoCall
    /\ heap = <<>>
    /\ updates = <<>>

InitCondition ==
    /\ \E f \in ConditionField, op \in ConditionOperator, v \in ConditionValues :
           subject = Condition(f, op, v)
    /\ \E v \in FieldValues : transaction = [FullTransaction EXCEPT ![subject.field] = v]
    /\ pc = "call"
    /\ result = NoResult
    /\ NoEngine

ConditionEvaluateCall ==
    /\ pc = "call"
    /\ result' = ConditionEvaluate(subject, transaction)
    /\ pc' = "returned"
    /\ UNCHANGED <<storage, transaction, rules, idx, modified_transaction,
                   applied_rules, visited, previous, subject, heap, updates>>

NextCondition == ConditionEvaluateCall

SpecCondition == InitCondition /\ [][NextCondition]_vars

\* C8: a condition on a field the record does not hold, the key missing or its
\* value None, evaluates to false, whatever its operator and value
C8_AbsentFieldIsFalse ==
    (pc = "returned" /\ transaction[subject.field] \in {Missing, None})
        => result = Ret(FALSE)

\* the field is None, whose text "None" contains the condition's "n"
C8_Witness ==
    /\ pc = "returned"
    /\ transaction[subject.field] = None
    /\ subject.operator = "contains"
    /\ subject.value = StrV(<<"n">>)
    /\ result = Ret(FALSE)

\* C9: Condition.evaluate never raises: it returns a boolean for every operator,
\* condition value and record value
C9_NeverRaises == pc = "returned" => ~result.exc

----------------------------------------------------------------------------
(* Action.apply called on one action and one record *)

ActionValues == { StrV(<<>>), StrV(<<"t","a","g">>), StrV(<<"a"," ","b">>) }

CurrentValues == { Missing, None, StrV(<<>>), StrV(<<"n","o","t","e">>), IntV(5) }

InitAction ==
    /\ \E f \in ActionField, op \in ActionOperation, v \in ActionValues :
           subject = Action(f, op, v)
    /\ \E v \in CurrentValues : transaction = [FullTransaction EXCEPT ![subject.field] = v]
    /\ pc = "call"
    /\ result = NoResult
    /\ NoEngine

ActionApplyCall ==
    /\ pc = "call"
    /\ result' = Ret(ActionApply(subject, transaction))
    /\ pc' = "returned"
    /\ UNCHANGED <<storage, transaction, rules, idx, modified_transaction,
                   applied_rules, visited, previous, subject, heap, updates>>

\* the action applied to the record its first application returned
ActionApplyAgainCall ==
    /\ pc = "returned"
    /\ previous' = [transaction |-> transaction, result |-> result]
    /\ result' = Ret(ActionApply(subject, result.val))
    /\ pc' = "returned_again"
    /\ UNCHANGED <<storage, transaction, rules, idx, modified_transaction,
                   applied_rules, visited, subject, heap, updates>>

NextAction == ActionApplyCall \/ ActionApplyAgainCall

SpecAction == InitAction /\ [][NextAction]_vars

\* str() of the field's value, "" for a key the record does not hold
CurrentText == IF transaction[subject.field] = Missing THEN <<>>
               ELSE PyStr(transaction[subject.field])

\* text is left, one space, right
Joined(text, left, right) ==
    /\ Len(text) = Len(left) + 1 + Len(right)
    /\ SubSeq(text, 1, Len(left)) = left
    /\ text[Len(left) + 1] = " "
    /\ SubSeq(text, Len(left) + 2, Len(text)) = right

\* C10: append sets the field to the current text, one space and the value when
\* the current text is not empty, and to the value otherwise; prepend to the
\* value, one space and the current text, or to the value; every other key
\* keeps its value
C10_AppendPrepend ==
    (pc = "returned" /\ subject.operation \in {"append", "prepend"}) =>
        LET new == result.val[subject.field]
        IN  /\ ~result.exc
            /\ CurrentText = <<>> => new = subject.value
            /\ (CurrentText # <<>> /\ subject.operation = "append")
                   => new.t = "str" /\ Joined(new.s, CurrentText, subject.value.s)
            /\ (CurrentText # <<>> /\ subject.operation = "prepend")
                   => new.t = "str" /\ Joined(new.s, subject.value.s, CurrentText)
            /\ \A k \in Keys \ {subject.field} : result.val[k] = transaction[k]

\* "tag" appended to the memo "note" gives "note tag"
C10_Witness ==
    /\ pc = "returned"
    /\ subject = Action("memo", "append", StrV(<<"t","a","g">>))
    /\ transaction["memo"] = StrV(<<"n","o","t","e">>)
    /\ result.val["memo"] = StrV(<<"n","o","t","e"," ","t","a","g">>)

\* C11: for append and prepend a field the record does not hold, the key
\* missing or its value None, counts as empty text: the field becomes exactly
\* the action's value
C11_AbsentIsEmptyText ==
    (/\ pc = "returned"
     /\ subject.operation \in {"append", "prepend"}
     /\ transaction[subject.field] \in {Missing, None})
        => result.val[subject.field] = subject.value

\* the target field of the first and of the second application
FirstField == previous.result.val[subject.field]
SecondField == result.val[subject.field]

\* C12 as claimed: for every record and every append or prepend action, the
\* second application leaves the field strictly longer than the first
C12_RepeatGrows ==
    (pc = "returned_again" /\ subject.operation \in {"append", "prepend"})
        => Len(PyStr(SecondField)) > Len(PyStr(FirstField))

\* C12: for every record and every append or prepend action whose first
\* application leaves the field non-empty, the second application leaves the
\* field strictly longer
C12_RepeatGrowsNonEmpty ==
    (/\ pc = "returned_again"
     /\ subject.operation \in {"append", "prepend"}
     /\ FirstField # StrV(<<>>))
        => /\ SecondField.t = "str"
           /\ Len(SecondField.s) > Len(PyStr(FirstField))

\* "tag" appended twice to the memo "note"
C12_Witness ==
    /\ pc = "returned_again"
    /\ subject = Action("memo", "append", StrV(<<"t","a","g">>))
    /\ FirstField = StrV(<<"n","o","t","e"," ","t","a","g">>)
    /\ SecondField = StrV(<<"n","o","t","e"," ","t","a","g"," ","t","a","g">>)

----------------------------------------------------------------------------
(* Rule.evaluate and Rule.apply called on one rule and one record *)

\* the most conditions and the most actions of a rule
MaxConditions == 2
MaxActions == 2

RuleConditions ==
    { Condition("memo", "equals", StrV(<<"x">>)),
      Condition("payee_name", "contains", StrV(uber)),
      Condition("outflow", "greater_than", StrV(<<"5">>)),
      Condition("memo", "regex", StrV(HugeRepeat)) }

RuleActions ==
    { Action("memo", "set", StrV(<<"y">>)),
      Action("memo", "append", StrV(<<"t","a","g">>)),
      Action("memo", "prepend", StrV(<<"t","a","g">>)),
      Action("payee_name", "clear", StrV(<<>>)),
      Action("category_name", "set", StrV(Transport)) }

RuleTransactions ==
    { [EmptyTransaction EXCEPT !["id"] = StrV(<<"t","1">>), !["payee_name"] = StrV(Uber),
                               !["memo"] = StrV(<<"x">>), !["outflow"] = IntV(10)],
      [EmptyTransaction EXCEPT !["id"] = StrV(<<"t","2">>), !["payee_name"] = StrV(Uber),
                               !["outflow"] = StrV(<<"3">>)],
      [EmptyTransaction EXCEPT !["id"] = StrV(<<"t","3">>), !["payee_name"] = StrV(Lyft),
                               !["memo"] = StrV(<<"X">>), !["category_name"] = None] }

SeqsUpTo(S, n) == UNION {[1..m -> S] : m \in 0..n}

InitRule ==
    /\ \E cs \in SeqsUpTo(RuleConditions, MaxConditions),
          as \in SeqsUpTo(RuleActions, MaxActions),
          op \in {"and", "or"} :
           subject = [id |-> RuleId(1), name |-> RuleName(1), description |-> <<>>,
                      conditions |-> cs, actions |-> as, enabled |-> TRUE,
                      priority |-> 0, logic_operator |-> op]
    /\ transaction \in RuleTransactions
    /\ pc = "call"
    /\ result = NoResult
    /\ NoEngine

RuleEvaluateCall ==
    /\ pc = "call"
    /\ result' = RuleEvaluate(subject, transaction)
    /\ pc' = "evaluated"
    /\ UNCHANGED <<storage, transaction, rules, idx, modified_transaction,
                   applied_rules, visited, previous, subject, heap, updates>>

RuleApplyCall ==
    /\ pc = "call"
    /\ result' = RuleApply(subject, transaction)
    /\ pc' = "applied"
    /\ UNCHANGED <<storage, transaction, rules, idx, modified_transaction,
                   applied_rules, visited, previous, subject, heap, updates>>

NextRule == RuleEvaluateCall \/ RuleApplyCall

SpecRule == InitRule /\ [][NextRule]_vars

ConditionTrue(k) == ConditionEvaluate(subject.conditions[k], transaction) = Ret(TRUE)

\* C6: Rule.evaluate is false for a rule with no conditions, whatever its logic
\* operator; with conditions it is true under `and` iff every condition
\* evaluates true, and under `or` iff at least one does
C6_RuleEvaluate ==
    pc = "evaluated" =>
        /\ Len(subject.conditions) = 0 => result = Ret(FALSE)
        /\ (Len(subject.conditions) > 0 /\ subject.logic_operator = "and")
               => (result = Ret(TRUE) <=> \A k \in 1..Len(subject.conditions) : ConditionTrue(k))
        /\ (Len(subject.conditions) > 0 /\ subject.logic_operator = "or")
               => (result = Ret(TRUE) <=> \E k \in 1..Len(subject.conditions) : ConditionTrue(k))

\* the actions of a rule composed from the last one back
RECURSIVE Composed(_, _)
Composed(actions, t) ==
    IF Len(actions) = 0 THEN t
    ELSE ActionApply(actions[Len(actions)], Composed(SubSeq(actions, 1, Len(actions) - 1), t))

\* C7: Rule.apply returns the record it was given when Rule.evaluate is false;
\* when it is true it returns the actions applied in stored order, each to the
\* record the one before it produced, which for no actions is a record equal
\* to the one given
C7_RuleApply ==
    pc = "applied" =>
        /\ RuleEvaluate(subject, transaction) = Ret(FALSE) => result = Ret(transaction)
        /\ RuleEvaluate(subject, transaction) = Ret(TRUE)
               => /\ result = Ret(Composed(subject.actions, transaction))
                  /\ Len(subject.actions) = 0 => result = Ret(transaction)

\* a matching rule whose second action reads what its first wrote
C7_Witness ==
    /\ pc = "applied"
    /\ RuleEvaluate(subject, transaction) = Ret(TRUE)
    /\ subject.actions = << Action("memo", "set", StrV(<<"y">>)),
                            Action("memo", "append", StrV(<<"t","a","g">>)) >>
    /\ result.val["memo"] = StrV(<<"y"," ","t","a","g">>)

----------------------------------------------------------------------------
(* Calls made on dict objects: Action.apply, Rule.apply, process_transaction *)
(* and process_transactions, on a rules file and a batch of records          *)

\* the most transactions of a batch
MaxBatch == 2

lyft == <<"l","y","f","t">>
swap == <<"s","w","a","p">>
ride == <<"r","i","d","e">>
tag == <<"t","a","g">>

NamedRule(name, cs, as, e, p) ==
    [id |-> name, name |-> name, description |-> <<>>, conditions |-> cs,
     actions |-> as, enabled |-> e, priority |-> p, logic_operator |-> "and"]

\* two rules named swap that undo each other, a rule of two actions, a
\* disabled rule, a rule that writes what is there already, and a rule whose
\* pattern cannot be compiled
BatchRules ==
    { NamedRule(swap, <<Condition("memo", "equals", StrV(<<"x">>))>>,
                <<Action("memo", "set", StrV(<<"y">>))>>, TRUE, 10),
      NamedRule(swap, <<Condition("memo", "equals", StrV(<<"y">>))>>,
                <<Action("memo", "set", StrV(<<"x">>))>>, TRUE, 5),
      NamedRule(ride, <<Condition("payee_name", "contains", StrV(uber))>>,
                <<Action("category_name", "set", StrV(Transport)),
                  Action("memo", "append", StrV(tag))>>, TRUE, 0),
      NamedRule(<<"o","f","f">>, <<Condition("payee_name", "contains", StrV(uber))>>,
                <<Action("memo", "clear", StrV(<<>>))>>, FALSE, 20),
      NamedRule(lyft, <<Condition("payee_name", "contains", StrV(lyft))>>,
                <<Action("payee_name", "set", StrV(Lyft))>>, TRUE, 5),
      NamedRule(<<"b","a","d">>, <<Condition("category_name", "regex", StrV(HugeRepeat))>>,
                <<Action("memo", "clear", StrV(<<>>))>>, TRUE, 0) }

InitBatch ==
    /\ storage \in SeqsUpTo(BatchRules, MaxRules)
    /\ heap \in SeqsUpTo(EngineTransactions, MaxBatch)
    /\ pc = "call"
    /\ transaction = EmptyTransaction
    /\ rules = <<>>
    /\ idx = 0
    /\ modified_transaction = EmptyTransaction
    /\ applied_rules = <<>>
    /\ visited = <<>>
    /\ previous = NoCall
    /\ subject = NoCall
    /\ result = NoResult
    /\ updates = <<>>

\* what the caller can compare the objects with after the call
BeforeCall == [heap |-> heap, storage |-> storage]

\* the call made is noted in subject, the objects before it in previous
ObjectCall(h, returned, call) ==
    /\ heap' = h
    /\ result' = returned
    /\ subject' = call
    /\ previous' = BeforeCall
    /\ pc' = "returned"
    /\ UNCHANGED <<storage, transaction, rules, idx, modified_transaction,
                   applied_rules, visited, updates>>

\* a call that returns the object o.ref, or raises
ObjectReturned(o, call) ==
    ObjectCall(o.heap, IF o.exc THEN Raise ELSE Ret(o.ref), call)

\* an action of a stored rule applied to a record of the batch
ActionApplyOnObject ==
    /\ pc = "call"
    /\ \E k \in 1..Len(storage), r \in 1..Len(heap) :
         \E j \in 1..Len(storage[k].actions) :
           ObjectReturned(
               Returned(ActionApplyOnHeap(heap, ActionFromDict(storage[k].actions[j]), r)),
               [call |-> "Action.apply", rule |-> k, action |-> j, on |-> r])

\* a stored rule applied to a record of the batch
RuleApplyOnObject ==
    /\ pc = "call"
    /\ \E k \in 1..Len(storage), r \in 1..Len(heap) :
           ObjectReturned(RuleApplyOnHeap(heap, RuleFromDict(storage[k]), r),
                          [call |-> "Rule.apply", rule |-> k, on |-> r])

\* process_transaction returns the object of the modified record and the
\* applied rules
TransactionProcessed(p, call) ==
    ObjectCall(p.heap,
               IF p.exc THEN Raise ELSE Ret([record |-> p.ref, applied |-> p.applied]),
               call)

\* process_transaction called on a record of the batch
ProcessTransactionOnObject ==
    /\ pc = "call"
    /\ \E r \in 1..Len(heap) :
           TransactionProcessed(ProcessTransactionOnHeap(heap, storage, r),
                                [call |-> "process_transaction", on |-> r])

\* the references of the batch: the objects the heap holds before the call
BatchRefs(h) == [r \in 1..Len(h) |-> r]

\* process_transactions returns its report
BatchProcessed(b, call) ==
    ObjectCall(b.heap, IF b.exc THEN Raise ELSE Ret(b.results), call)

\* process_transactions called on the batch
ProcessTransactionsOnObjects ==
    /\ pc = "call"
    /\ \E dry_run \in BOOLEAN :
           BatchProcessed(
               ProcessTransactionsOnHeap(heap, storage, BatchRefs(heap), dry_run),
               [call |-> "process_transactions", dry_run |-> dry_run])

\* the second run returns its report; previous keeps the first run's
OtherRunProcessed(b) ==
    /\ heap' = b.heap
    /\ result' = IF b.exc THEN Raise ELSE Ret(b.results)
    /\ subject' = [subject EXCEPT !.dry_run = ~subject.dry_run]
    /\ previous' = [heap |-> previous.heap, storage |-> storage, result |-> result]
    /\ pc' = "returned_other"
    /\ UNCHANGED <<storage, transaction, rules, idx, modified_transaction,
                   applied_rules, visited, updates>>

\* process_transactions called once more on the same batch and rules file, with
\* the other value of dry_run
ProcessTransactionsOtherRun ==
    /\ pc = "returned"
    /\ subject.call = "process_transactions"
    /\ OtherRunProcessed(
           ProcessTransactionsOnHeap(heap, storage, BatchRefs(previous.heap),
                                     ~subject.dry_run))

NextBatch ==
    \/ ActionApplyOnObject
    \/ RuleApplyOnObject
    \/ ProcessTransactionOnObject
    \/ ProcessTransactionsOnObjects
    \/ ProcessTransactionsOtherRun

SpecBatch == InitBatch /\ [][NextBatch]_vars

\* C13: Action.apply, Rule.apply, process_transaction and process_transactions
\* leave every record passed to them as it was, key by key, and the two engine
\* calls leave the rules file as it was
C13_InputsUntouched ==
    pc = "returned" =>
        /\ Len(heap) >= Len(previous.heap)
        /\ \A r \in 1..Len(previous.heap) : heap[r] = previous.heap[r]
        /\ storage = previous.storage

\* a batch call that returned a modification of the first record, which still
\* holds what it held
C13_Witness ==
    /\ pc = "returned"
    /\ subject.call = "process_transactions"
    /\ ~result.exc
    /\ Len(result.val.modifications) > 0
    /\ result.val.modifications[1].transaction_id = heap[1]["id"]
    /\ heap[1] = previous.heap[1]

\* a batch call has returned its report
Reported == pc = "returned" /\ subject.call = "process_transactions" /\ ~result.exc

\* the batch as passed in, and what process_transaction returns for its r-th
\* record alone
Batch == previous.heap
Alone(r) == ProcessTransaction(storage, Batch[r]).val

\* the places <<r, i>> where the name is the i-th rule applied to record r
Applications(name) ==
    { ri \in (1..Len(Batch)) \X (1..MaxRules) :
          ri[2] <= Len(Alone(ri[1]).applied) /\ Alone(ri[1]).applied[ri[2]] = name }

AppliedNames == UNION { {Alone(r).applied[i] : i \in 1..Len(Alone(r).applied)} :
                        r \in 1..Len(Batch) }

RECURSIVE SumCounts(_, _)
SumCounts(counts, names) ==
    IF names = {} THEN 0
    ELSE LET n == CHOOSE x \in names : TRUE
         IN  counts[n] + SumCounts(counts, names \ {n})

\* C14: total_transactions is the batch length, modified_transactions the
\* number of records for which process_transaction returned an applied rule,
\* rules_applied the count per name of the rules recorded as applied, names
\* never applied left out; so modified_transactions <= total_transactions and
\* the counts add up to at least modified_transactions
C14_ReportCounts ==
    Reported =>
        LET report == result.val
        IN  /\ report.total_transactions = Len(Batch)
            /\ report.modified_transactions =
                   Cardinality({r \in 1..Len(Batch) : Alone(r).applied # <<>>})
            /\ DOMAIN report.rules_applied = AppliedNames
            /\ \A name \in AppliedNames :
                   report.rules_applied[name] = Cardinality(Applications(name))
            /\ report.modified_transactions <= report.total_transactions
            /\ SumCounts(report.rules_applied, DOMAIN report.rules_applied)
                   >= report.modified_transactions

\* one record to which both rules named swap were applied
C14_Witness ==
    /\ Reported
    /\ result.val.modified_transactions = 1
    /\ result.val.total_transactions = 2
    /\ swap \in DOMAIN result.val.rules_applied
    /\ result.val.rules_applied[swap] = 2

\* C15: the report has one modifications entry for each transaction counted in
\* modified_transactions
C15_OneEntryPerModified ==
    Reported => Len(result.val.modifications) = result.val.modified_transactions

\* the records of the batch an entry of the report can stand for
RecordsOf(entry) ==
    { r \in 1..Len(Batch) : DictGetDefault(Batch[r], "id", StrV(unknown)) = entry.transaction_id }

Present(record, k) == record[k] # Missing

\* the original record with the new values of the change entries written over it
RECURSIVE Overwritten(_, _)
Overwritten(original, changes) ==
    IF Len(changes) = 0 THEN original
    ELSE [Overwritten(original, SubSeq(changes, 1, Len(changes) - 1))
             EXCEPT ![changes[Len(changes)].field] = changes[Len(changes)].new_value]

\* C16: the diff of a modified transaction has exactly one entry for every key
\* whose presence or value differs between the original and the final record
\* and none for the other keys; a changed key carries the old and the new
\* value, a key of the final record alone null as old value, a key of the
\* original alone null as new value; the new values written over the original
\* give the final record
C16_DiffEntries ==
    Reported =>
        \A m \in 1..Len(result.val.modifications) :
            LET entry == result.val.modifications[m]
                changes == entry.changes
            IN  /\ RecordsOf(entry) # {}
                /\ \A r \in RecordsOf(entry) :
                     LET original == Batch[r]
                         final == Alone(r).record
                     IN  /\ \A k \in Keys :
                               Cardinality({i \in 1..Len(changes) : changes[i].field = k})
                                   = IF original[k] # final[k] THEN 1 ELSE 0
                         /\ \A i \in 1..Len(changes) :
                               LET k == changes[i].field
                               IN  /\ k \in Keys
                                   /\ changes[i].old_value =
                                          IF Present(original, k) THEN original[k] ELSE None
                                   /\ changes[i].new_value =
                                          IF Present(final, k) THEN final[k] ELSE None
                         /\ Overwritten(original, changes) = final

\* a diff with a changed key and a key that only the final record holds
C16_Witness ==
    /\ Reported
    /\ \E m \in 1..Len(result.val.modifications) :
         LET changes == result.val.modifications[m].changes
         IN  /\ \E i \in 1..Len(changes) :
                    /\ changes[i].field = "category_name"
                    /\ changes[i].old_value = None
                    /\ changes[i].new_value = StrV(Transport)
             /\ \E i \in 1..Len(changes) :
                    /\ changes[i].field = "memo"
                    /\ changes[i].old_value = StrV(<<"x">>)
                    /\ changes[i].new_value = StrV(<<"x"," ","t","a","g">>)

\* the records of the batch, in batch order, that have an entry to their name:
\* a rule was applied and the final record differs from the original
WithEntry ==
    SelectSeq(BatchRefs(Batch), LAMBDA r :
        /\ Alone(r).applied # <<>>
        /\ GetTransactionChanges(Batch[r], Alone(r).record) # <<>>)

\* C17: the applied rules and the changes reported for a transaction of a
\* batch are those process_transaction gives for it alone, whatever comes
\* before it in the batch, and the entries of modifications stand in the order
\* of their transactions in the batch
C17_IndependentInOrder ==
    Reported =>
        /\ Len(result.val.modifications) = Len(WithEntry)
        /\ \A m \in 1..Len(WithEntry) :
             LET entry == result.val.modifications[m]
                 r == WithEntry[m]
             IN  /\ entry.transaction_id = DictGetDefault(Batch[r], "id", StrV(unknown))
                 /\ entry.payee_name = DictGetDefault(Batch[r], "payee_name", StrV(unknown))
                 /\ entry.applied_rules = Alone(r).applied
                 /\ entry.changes = GetTransactionChanges(Batch[r], Alone(r).record)

\* two entries, for the records t2 and t1 of the batch in that order
C17_Witness ==
    /\ Reported
    /\ Len(result.val.modifications) = 2
    /\ result.val.modifications[1].transaction_id = StrV(<<"t","2">>)
    /\ result.val.modifications[2].transaction_id = StrV(<<"t","1">>)
    /\ result.val.modifications[1].applied_rules = <<ride>>
    /\ Len(result.val.modifications[2].applied_rules) = 2

\* C19: two process_transactions runs on the same rules file and batch that
\* differ in dry_run only return reports that differ in the field dry_run
\* only, which echoes the argument, and no run updates a transaction of the
\* ledger
C19_DryRunIsMetadata ==
    pc = "returned_other" =>
        /\ result.exc <=> previous.result.exc
        /\ ~result.exc =>
              /\ result.val.dry_run = subject.dry_run
              /\ previous.result.val.dry_run = ~subject.dry_run
              /\ [result.val EXCEPT !.dry_run = ~subject.dry_run] = previous.result.val
        /\ updates = <<>>

\* both runs reported a modification
C19_Witness ==
    /\ pc = "returned_other"
    /\ ~result.exc
    /\ result.val.dry_run
    /\ ~previous.result.val.dry_run
    /\ result.val.modified_transactions > 0
    /\ Len(result.val.modifications) > 0

\* every action of the rules file writes one of the three action fields
ActionFieldsOnly ==
    \A k \in 1..Len(storage) : \A j \in 1..Len(storage[k].actions) :
        storage[k].actions[j].field \in ActionField

\* C30: when every action field is payee_name, category_name or memo,
\* process_transaction changes these keys alone: every other key of the record
\* passed in is in the record returned with the same value, no key is
\* missing from it, and every change entry process_transactions reports is on
\* one of the three fields
C30_OnlyActionFields ==
    (pc = "returned" /\ ~result.exc /\ ActionFieldsOnly) =>
        /\ subject.call = "process_transaction" =>
               /\ \A key \in Keys \ ActionField :
                      heap[result.val.record][key] = previous.heap[subject.on][key]
               /\ \A key \in Keys :
                      Present(previous.heap[subject.on], key) =>
                          Present(heap[result.val.record], key)
        /\ subject.call = "process_transactions" =>
               \A m \in 1..Len(result.val.modifications) :
                   \A i \in 1..Len(result.val.modifications[m].changes) :
                       result.val.modifications[m].changes[i].field \in ActionField

\* process_transaction returned a record with another memo and category, and
\* with the id and the outflow of the record passed in
C30_Witness ==
    /\ pc = "returned"
    /\ ~result.exc
    /\ subject.call = "process_transaction"
    /\ previous.heap[subject.on]["outflow"] = IntV(10)
    /\ heap[result.val.record]["outflow"] = IntV(10)
    /\ heap[result.val.record]["id"] = StrV(<<"t","1">>)
    /\ heap[result.val.record]["memo"] # previous.heap[subject.on]["memo"]
    /\ heap[result.val.record]["category_name"] = StrV(Transport)

----------------------------------------------------------------------------
(* process_transactions step by step, one transaction at a time, while      *)
(* another process saves and deletes rules in the rules file                 *)

StoreRules ==
    { NamedRule(ride, <<Condition("payee_name", "contains", StrV(uber))>>,
                <<Action("category_name", "set", StrV(Transport))>>, TRUE, 0),
      NamedRule(ride, <<Condition("payee_name", "contains", StrV(uber))>>,
                <<Action("memo", "set", StrV(<<"y">>))>>, TRUE, 0),
      NamedRule(lyft, <<Condition("payee_name", "contains", StrV(lyft))>>,
                <<Action("memo", "append", StrV(tag))>>, TRUE, 5) }

\* the files save_rule can have written: no two records of one id
StoreFiles ==
    { f \in SeqsUpTo(StoreRules, MaxRules) :
          \A i, j \in 1..Len(f) : f[i].id = f[j].id => i = j }

InitStore ==
    /\ storage \in StoreFiles
    /\ heap \in SeqsUpTo(EngineTransactions, MaxBatch)
    /\ \E dry_run \in BOOLEAN : subject = [call |-> "process_transactions", dry_run |-> dry_run]
    /\ pc = "call"
    /\ transaction = EmptyTransaction
    /\ rules = <<>>
    /\ idx = 0
    /\ modified_transaction = EmptyTransaction
    /\ applied_rules = <<>>
    /\ visited = <<>>
    /\ previous = NoCall
    /\ result = NoResult
    /\ updates = <<>>

\* lines 90-96
BatchBegin ==
    /\ pc = "call"
    /\ result' = Ret(ReportInit(BatchRefs(heap), subject.dry_run))
    /\ previous' = BeforeCall
    /\ idx' = 1
    /\ pc' = "batch"
    /\ UNCHANGED <<storage, transaction, rules, modified_transaction, applied_rules,
                   visited, subject, heap, updates>>

\* the results so far are kept in result
OneProcessed(one) ==
    /\ heap' = one.heap
    /\ result' = IF one.exc THEN Raise ELSE Ret(one.results)
    /\ pc' = IF one.exc THEN "raised" ELSE "batch"

\* lines 98-118 for one transaction; process_transaction loads the rules (line
\* 53), and visited notes the rules it loaded
BatchTransaction ==
    /\ pc = "batch"
    /\ idx <= Len(previous.heap)
    /\ OneProcessed(ProcessOne(heap, storage, result.val, idx))
    /\ rules' = LoadRules(storage)
    /\ visited' = Append(visited, LoadRules(storage))
    /\ idx' = idx + 1
    /\ UNCHANGED <<storage, transaction, modified_transaction, applied_rules,
                   previous, subject, updates>>

\* lines 121-122
BatchReturn ==
    /\ pc = "batch"
    /\ idx > Len(previous.heap)
    /\ pc' = "returned"
    /\ UNCHANGED <<storage, transaction, rules, idx, modified_transaction,
                   applied_rules, visited, previous, subject, result, heap, updates>>

\* another process saves a rule
OtherProcessSaves ==
    /\ pc \in {"call", "batch"}
    /\ \E rule \in StoreRules :
           /\ storage' = SaveRule(storage, rule)
           /\ storage' # storage
           /\ Len(storage') <= MaxRules
    /\ UNCHANGED <<transaction, pc, rules, idx, modified_transaction, applied_rules,
                   visited, previous, subject, result, heap, updates>>

\* another process deletes a rule
OtherProcessDeletes ==
    /\ pc \in {"call", "batch"}
    /\ \E k \in 1..Len(storage) : storage' = DeleteRule(storage, storage[k].id)
    /\ UNCHANGED <<transaction, pc, rules, idx, modified_transaction, applied_rules,
                   visited, previous, subject, result, heap, updates>>

NextStore ==
    \/ BatchBegin
    \/ BatchTransaction
    \/ BatchReturn
    \/ OtherProcessSaves
    \/ OtherProcessDeletes

SpecStore == InitStore /\ [][NextStore]_vars

\* C18: within one process_transactions call every transaction is processed
\* against the same loaded rule sequence, also when another process saves or
\* deletes a rule meanwhile
C18_OneSnapshot ==
    \A i, j \in 1..Len(visited) : visited[i] = visited[j]

----------------------------------------------------------------------------
(* app.py: App.process_transactions, the host of the engine *)

\* App._get_transaction_data: a dict of id and payee_id per Transaction of
\* the service
GetTransactionData(raw_transactions) ==
    [k \in 1..Len(raw_transactions) |->
        [EmptyTransaction EXCEPT !["id"] = raw_transactions[k].id,
                                 !["payee_id"] = raw_transactions[k].payee_id]]

\* the changes of one modifications entry, as _apply_transaction_changes
\* handles them
UpdatesOf(mod) ==
    [i \in 1..Len(mod.changes) |->
        [transaction_id |-> mod.transaction_id,
         field |-> mod.changes[i].field,
         new_value |-> mod.changes[i].new_value]]

\* App._apply_transaction_changes, lines 140-151, from modification k on: every
\* change is handled and counted
RECURSIVE ApplyTransactionChanges(_, _)
ApplyTransactionChanges(modifications, k) ==
    IF k > Len(modifications) THEN <<>>
    ELSE UpdatesOf(modifications[k]) \o ApplyTransactionChanges(modifications, k + 1)

\* AppliesChanges applying the changes of a dry run too
AppliesChangesAlways(dry_run) == TRUE

\* App.process_transactions, line 83: if not dry_run
AppliesChanges(dry_run) == ~dry_run

\* App.process_transactions, lines 83-87, handled being what
\* _apply_transaction_changes went through
AppReport(results, handled, dry_run) ==
    IF AppliesChanges(dry_run)
    THEN [report |-> results @@ [changes_applied |-> Len(handled)], updates |-> handled]
    ELSE [report |-> results, updates |-> <<>>]

p1 == <<"p","1">>

\* the Transactions the service returns
RawTransactions ==
    { [id |-> StrV(<<"t","1">>), payee_id |-> StrV(p1)],
      [id |-> StrV(<<"t","2">>), payee_id |-> None],
      [id |-> StrV(<<"u","3">>), payee_id |-> StrV(p1)] }

\* rules of a rules file written by hand, on the keys the host's records hold,
\* and a rule on a key they do not hold
AppRules ==
    { NamedRule(<<"p","a","y","e","e">>, <<Condition("payee_id", "equals", StrV(p1))>>,
                <<Action("memo", "set", StrV(<<"y">>)),
                  Action("category_name", "set", StrV(Transport))>>, TRUE, 10),
      NamedRule(<<"i","d">>, <<Condition("id", "starts_with", StrV(<<"t">>))>>,
                <<Action("memo", "append", StrV(tag))>>, TRUE, 5),
      NamedRule(ride, <<Condition("payee_name", "contains", StrV(uber))>>,
                <<Action("category_name", "set", StrV(Transport))>>, TRUE, 0),
      NamedRule(<<"b","a","d">>, <<Condition("payee_id", "regex", StrV(HugeRepeat))>>,
                <<Action("memo", "clear", StrV(<<>>))>>, TRUE, 0) }

InitApp ==
    /\ storage \in SeqsUpTo(AppRules, MaxRules)
    /\ \E service \in {"none", "failing", "ready"}, dry_run \in BOOLEAN :
         \E ledger \in SeqsUpTo(RawTransactions, MaxBatch) :
           subject = [ynab_service |-> service, ledger |-> ledger, dry_run |-> dry_run]
    /\ heap = <<>>
    /\ pc = "call"
    /\ transaction = EmptyTransaction
    /\ rules = <<>>
    /\ idx = 0
    /\ modified_transaction = EmptyTransaction
    /\ applied_rules = <<>>
    /\ visited = <<>>
    /\ previous = NoCall
    /\ result = NoResult
    /\ updates = <<>>

\* AppWithoutService answering with an empty report instead of raising
AppWithoutServiceSwallowed ==
    /\ pc = "call"
    /\ subject.ynab_service = "none"
    /\ result' = Ret(ReportInit(<<>>, subject.dry_run))
    /\ pc' = "returned"
    /\ UNCHANGED <<storage, transaction, rules, idx, modified_transaction,
                   applied_rules, visited, previous, subject, heap, updates>>

\* lines 73-74: no service, for want of credentials
AppWithoutService ==
    /\ pc = "call"
    /\ subject.ynab_service = "none"
    /\ result' = Raise
    /\ pc' = "raised"
    /\ UNCHANGED <<storage, transaction, rules, idx, modified_transaction,
                   applied_rules, visited, previous, subject, heap, updates>>

\* line 77: get_transactions raises
AppFetchFails ==
    /\ pc = "call"
    /\ subject.ynab_service = "failing"
    /\ result' = Raise
    /\ pc' = "raised"
    /\ UNCHANGED <<storage, transaction, rules, idx, modified_transaction,
                   applied_rules, visited, previous, subject, heap, updates>>

\* the host returns the report and has handled the updates
AppReturns(out) ==
    /\ result' = Ret(out.report)
    /\ updates' = out.updates
    /\ pc' = "returned"

\* lines 80-87, b being what the engine gave
AppEngineReturned(b) ==
    IF b.exc
    THEN result' = Raise /\ pc' = "raised" /\ updates' = updates
    ELSE AppReturns(AppReport(b.results,
                              ApplyTransactionChanges(b.results.modifications, 1),
                              subject.dry_run))

\* App.process_transactions
AppProcessTransactions ==
    /\ pc = "call"
    /\ subject.ynab_service = "ready"
    /\ heap' = GetTransactionData(subject.ledger)
    /\ AppEngineReturned(
           ProcessTransactionsOnHeap(GetTransactionData(subject.ledger), storage,
                                     BatchRefs(subject.ledger), subject.dry_run))
    /\ UNCHANGED <<storage, transaction, rules, idx, modified_transaction,
                   applied_rules, visited, previous, subject>>

NextApp == AppWithoutService \/ AppFetchFails \/ AppProcessTransactions

SpecApp == InitApp /\ [][NextApp]_vars

\* the change entries of all modifications, counted
RECURSIVE TotalChanges(_)
TotalChanges(modifications) ==
    IF Len(modifications) = 0 THEN 0
    ELSE Len(Head(modifications).changes) + TotalChanges(Tail(modifications))

\* C20: App.process_transactions runs the apply step if and only if dry_run is
\* false: a dry run applies no change and its report has no changes_applied;
\* otherwise changes_applied is the number of change entries of all
\* modifications
C20_AppliesUnlessDryRun ==
    pc = "returned" =>
        /\ ~result.exc
        /\ subject.dry_run =>
              /\ updates = <<>>
              /\ "changes_applied" \notin DOMAIN result.val
        /\ ~subject.dry_run =>
              /\ "changes_applied" \in DOMAIN result.val
              /\ result.val.changes_applied = TotalChanges(result.val.modifications)
              /\ Len(updates) = TotalChanges(result.val.modifications)

\* a run that applied the two changes of one modification
C20_Witness ==
    /\ pc = "returned"
    /\ ~subject.dry_run
    /\ Len(result.val.modifications) = 1
    /\ result.val.changes_applied = 2
    /\ Len(updates) = 2
    /\ updates[1].transaction_id = StrV(<<"u","3">>)

\* C21: App.process_transactions called on an App whose YNAB service was not
\* initialised raises to the caller: the call never returns a report, and when
\* it has raised no transaction was fetched, no rule was loaded or evaluated
\* and no change was applied
C21_NoServiceRaises ==
    subject.ynab_service = "none" =>
        /\ pc \in {"call", "raised"}
        /\ pc = "raised" => result = Raise
        /\ heap = <<>>
        /\ rules = <<>> /\ visited = <<>> /\ applied_rules = <<>>
        /\ updates = <<>>

\* a call that raised for want of a service, with a ledger and a rules file
\* that would have given work, and not as a dry run
C21_Witness ==
    /\ subject.ynab_service = "none"
    /\ pc = "raised"
    /\ result = Raise
    /\ ~subject.dry_run
    /\ Len(subject.ledger) > 0
    /\ Len(storage) > 0

----------------------------------------------------------------------------
(* The rules file as text on disk, and RuleStorage call by call: save_rule  *)
(* and delete_rule load the file, change the list, open the file for        *)
(* writing, and write                                                       *)

\* the text of a file, piece by piece: the brackets of a list, an object, a
\* number, and text that is no JSON
OpenBracket == [tok |-> "[", dict |-> <<>>]
CloseBracket == [tok |-> "]", dict |-> <<>>]
Number == [tok |-> "5", dict |-> <<>>]
Junk == [tok |-> "?", dict |-> <<>>]
Object(d) == [tok |-> "{}", dict |-> <<d>>]

IsValue(x) == x.tok \in {"{}", "5"}
IsDict(x) == x.tok = "{}"

\* what json gives for a text: a list of values or one value
ListOf(items) == [list |-> TRUE, items |-> items]
NoList(value) == [list |-> FALSE, items |-> <<value>>]

\* json.load: a list of values, one value, or JSONDecodeError
JsonLoad(text) ==
    IF /\ Len(text) >= 2
       /\ text[1] = OpenBracket
       /\ text[Len(text)] = CloseBracket
       /\ \A k \in 2..(Len(text) - 1) : IsValue(text[k])
    THEN Ret(ListOf(SubSeq(text, 2, Len(text) - 1)))
    ELSE IF Len(text) = 1 /\ IsValue(text[1])
    THEN Ret(NoList(text[1]))
    ELSE Raise

\* a value json cannot write: a set
SetV == [t |-> "set", s |-> <<>>, n |-> 0]

\* json.dump can write the dict: none of the values of its conditions and
\* actions is a set
Serialisable(x) ==
    \/ ~IsDict(x)
    \/ /\ "conditions" \in DOMAIN x.dict[1] =>
              \A k \in 1..Len(x.dict[1].conditions) :
                  x.dict[1].conditions[k].value.t # "set"
       /\ "actions" \in DOMAIN x.dict[1] =>
              \A k \in 1..Len(x.dict[1].actions) :
                  x.dict[1].actions[k].value.t # "set"

\* the values json.dump writes before it meets one it cannot write
RECURSIVE WritablePrefix(_, _)
WritablePrefix(items, k) ==
    IF k > Len(items) \/ ~Serialisable(items[k]) THEN SubSeq(items, 1, k - 1)
    ELSE WritablePrefix(items, k + 1)

\* json.dump of a list: the text written, all of it, or the part before
\* TypeError was raised
JsonDump(items) ==
    IF \A k \in 1..Len(items) : Serialisable(items[k])
    THEN [exc |-> FALSE, text |-> <<OpenBracket>> \o items \o <<CloseBracket>>]
    ELSE [exc |-> TRUE, text |-> <<OpenBracket>> \o WritablePrefix(items, 1) \o <<Junk>>]

\* a file: whether it exists, can be opened for reading and for writing,
\* whether writing to it fails for want of space, and its text
Disk(exists, readable, writable, full, text) ==
    [exists |-> exists, readable |-> readable, writable |-> writable,
     full |-> full, text |-> text]

\* open(path, 'w'): the file exists and is empty
Truncated(disk) == [disk EXCEPT !.exists = TRUE, !.text = <<>>]

\* text written from the start of a file over the text that is there
Overlay(text, new) == new \o SubSeq(text, Len(new) + 1, Len(text))

WrittenOver(disk, new) == [disk EXCEPT !.text = Overlay(disk.text, new)]

\* RuleStorage._load_storage, lines 141-144: an error gives the empty list
Loaded(j) == IF j.exc THEN ListOf(<<>>) ELSE j.val

\* RuleStorage._load_storage
LoadStorage(disk) ==
    IF ~disk.exists THEN ListOf(<<>>)
    ELSE IF ~disk.readable THEN ListOf(<<>>)
    ELSE Loaded(JsonLoad(disk.text))

\* Condition.to_dict, Action.to_dict
ConditionToDict(c) == [field |-> c.field, operator |-> c.operator, value |-> c.value]
ActionToDict(a) == [field |-> a.field, operation |-> a.operation, value |-> a.value]

\* Rule.to_dict
RuleToDict(rule) ==
    Object([id |-> rule.id, name |-> rule.name, description |-> rule.description,
            conditions |-> [k \in 1..Len(rule.conditions) |->
                               ConditionToDict(rule.conditions[k])],
            actions |-> [k \in 1..Len(rule.actions) |-> ActionToDict(rule.actions[k])],
            enabled |-> rule.enabled, priority |-> rule.priority,
            logic_operator |-> rule.logic_operator])

\* the id uuid.uuid4 gives
uuid4 == <<"u","u","i","d","4">>

\* Rule.from_dict, lines 113 and 118-120, and Action.from_dict, line 104: what
\* data.get gives for the keys that can be left out
WithDefaults(d) ==
    [d EXCEPT !.actions = [k \in 1..Len(d.actions) |->
                              d.actions[k] @@ [value |-> StrV(<<>>)]]]
    @@ [id |-> uuid4, enabled |-> TRUE, priority |-> 0, logic_operator |-> "and"]

\* Rule.from_dict on a dict: KeyError for a key that is missing
RuleFromKeys(d) ==
    IF ~({"name", "description", "conditions", "actions"} \subseteq DOMAIN d) THEN Raise
    ELSE IF \E k \in 1..Len(d.conditions) :
                ~({"field", "operator", "value"} \subseteq DOMAIN d.conditions[k]) THEN Raise
    ELSE IF \E k \in 1..Len(d.actions) :
                ~({"field", "operation"} \subseteq DOMAIN d.actions[k]) THEN Raise
    ELSE Ret(RuleFromDict(WithDefaults(d)))

\* Rule.from_dict on a value of the file: TypeError for a number
RuleFromValue(x) == IF ~IsDict(x) THEN Raise ELSE RuleFromKeys(x.dict[1])

\* rule_data.get("id") == rule_id, on a dict
HasId(x, rule_id) ==
    /\ IsDict(x)
    /\ "id" \in DOMAIN x.dict[1]
    /\ x.dict[1].id = rule_id

\* the loops of lines 56-57 and 80-81: the place of the first dict of the id,
\* Len(items) + 1 when there is none, 0 when a value that is no dict is met
\* first (AttributeError)
RECURSIVE ScanForId(_, _, _)
ScanForId(items, rule_id, k) ==
    IF k > Len(items) THEN k
    ELSE IF ~IsDict(items[k]) THEN 0
    ELSE IF HasId(items[k], rule_id) THEN k
    ELSE ScanForId(items, rule_id, k + 1)

\* SaveRuleAt adding the dict at the end whether the id is there or not
SaveRuleAtAppends(items, new, k) ==
    IF k = 0 THEN Raise ELSE Ret(Append(items, new))

\* save_rule, lines 83 and 88-89, k being what the loop found
SaveRuleAt(items, new, k) ==
    IF k = 0 THEN Raise
    ELSE IF k > Len(items) THEN Ret(Append(items, new))
    ELSE Ret([items EXCEPT ![k] = new])

\* save_rule, lines 79-89, on what _load_storage gave
SaveRuleData(doc, rule) ==
    IF ~doc.list THEN Raise
    ELSE SaveRuleAt(doc.items, RuleToDict(rule), ScanForId(doc.items, rule.id, 1))

\* delete_rule, lines 113-114, on what _load_storage gave
DeleteRuleData(doc, rule_id) ==
    IF ~doc.list THEN Raise
    ELSE IF \E k \in 1..Len(doc.items) : ~IsDict(doc.items[k]) THEN Raise
    ELSE Ret(SelectSeq(doc.items, LAMBDA x : ~HasId(x, rule_id)))

\* get_all_rules, line 42
DecodeAll(doc) ==
    IF ~doc.list THEN Raise
    ELSE IF \E k \in 1..Len(doc.items) : RuleFromValue(doc.items[k]).exc THEN Raise
    ELSE Ret([k \in 1..Len(doc.items) |-> RuleFromValue(doc.items[k]).val])

\* RuleStorage.get_all_rules on the file
GetAllRulesFrom(disk) == DecodeAll(LoadStorage(disk))

\* FoundAt finding no rule
FoundAtNever(items, k) ==
    IF k = 0 THEN Raise ELSE Ret(None)

\* get_rule_by_id, lines 58 and 60, k being what the loop found
FoundAt(items, k) ==
    IF k = 0 THEN Raise
    ELSE IF k > Len(items) THEN Ret(None)
    ELSE RuleFromValue(items[k])

\* get_rule_by_id, lines 56-60
FindRule(doc, rule_id) ==
    IF ~doc.list THEN Raise
    ELSE FoundAt(doc.items, ScanForId(doc.items, rule_id, 1))

\* RuleStorage.get_rule_by_id on the file
GetRuleById(disk, rule_id) == FindRule(LoadStorage(disk), rule_id)

\* the calls made on one RuleStorage in a run
MaxCalls == 3

\* a rule whose action value json cannot write
UnwritableRule ==
    NamedRule(lyft, <<Condition("payee_name", "contains", StrV(lyft))>>,
              <<Action("memo", "set", SetV)>>, TRUE, 5)

RideRule ==
    NamedRule(ride, <<Condition("payee_name", "contains", StrV(uber))>>,
              <<Action("category_name", "set", StrV(Transport))>>, TRUE, 0)

LyftRule ==
    NamedRule(lyft, <<Condition("payee_name", "contains", StrV(lyft))>>,
              <<Action("memo", "append", StrV(tag))>>, TRUE, 5)

StoreIds == {ride, lyft}

SaveRuleCall(rule) == [op |-> "save_rule", rule_id |-> rule.id, rule |-> <<rule>>]
DeleteRuleCall(rule_id) == [op |-> "delete_rule", rule_id |-> rule_id, rule |-> <<>>]
GetRuleByIdCall(rule_id) == [op |-> "get_rule_by_id", rule_id |-> rule_id, rule |-> <<>>]
GetAllRulesCall == [op |-> "get_all_rules", rule_id |-> <<>>, rule |-> <<>>]

WriterCalls ==
    { SaveRuleCall(rule) : rule \in StoreRules } \cup { DeleteRuleCall(id) : id \in StoreIds }

WriteCalls == WriterCalls \cup { SaveRuleCall(UnwritableRule) }

ReadCalls == { GetAllRulesCall } \cup { GetRuleByIdCall(id) : id \in StoreIds }

\* the text json.dump writes for a list
ListText(items) == <<OpenBracket>> \o items \o <<CloseBracket>>

Healthy(text) == Disk(TRUE, TRUE, TRUE, FALSE, text)
NoFile == Disk(FALSE, TRUE, TRUE, FALSE, <<>>)

\* texts save_rule wrote, an empty file, and files written by hand: text that
\* is no JSON, a number, a list holding a number, a rule record of an id and
\* nothing else
FileTexts ==
    { <<>>, <<Junk>>, <<Number>>,
      ListText(<<>>),
      ListText(<<RuleToDict(RideRule)>>),
      ListText(<<RuleToDict(RideRule), RuleToDict(LyftRule)>>),
      ListText(<<RuleToDict(LyftRule), RuleToDict(RideRule)>>),
      ListText(<<RuleToDict(LyftRule), Number>>),
      ListText(<<Object([id |-> ride])>>) }

TwoRulesText == ListText(<<RuleToDict(LyftRule), RuleToDict(RideRule)>>)

\* the file is missing (in a directory where it can or cannot be made), is
\* there, or is there and the process has no permission on it, can only read
\* it, or cannot write to it for want of space
FileDisks ==
    { NoFile, Disk(FALSE, TRUE, FALSE, FALSE, <<>>) }
    \cup { Healthy(text) : text \in FileTexts }
    \cup { Disk(TRUE, FALSE, FALSE, FALSE, TwoRulesText),
           Disk(TRUE, TRUE, FALSE, FALSE, TwoRulesText),
           Disk(TRUE, TRUE, TRUE, TRUE, TwoRulesText) }

NoCallYet == [op |-> "none", rule_id |-> <<>>, rule |-> <<>>]

\* one process and the file
InitFile ==
    /\ storage \in FileDisks
    /\ pc = [p \in {1} |-> "idle"]
    /\ subject = [p \in {1} |-> NoCallYet]
    /\ rules = [p \in {1} |-> ListOf(<<>>)]
    /\ result = [p \in {1} |-> NoResult]
    /\ previous = [p \in {1} |-> storage]
    /\ visited = <<>>
    /\ updates = <<>>
    /\ idx = 0
    /\ transaction = EmptyTransaction
    /\ modified_transaction = EmptyTransaction
    /\ applied_rules = <<>>
    /\ heap = <<>>

\* lines 76 and 110: save_rule or delete_rule is called and loads the file
BeginWrite(p, calls) ==
    /\ pc[p] = "idle"
    /\ idx < MaxCalls
    /\ \E call \in calls : subject' = [subject EXCEPT ![p] = call]
    /\ rules' = [rules EXCEPT ![p] = LoadStorage(storage)]
    /\ previous' = [previous EXCEPT ![p] = storage]
    /\ pc' = [pc EXCEPT ![p] = "loaded"]
    /\ idx' = idx + 1
    /\ UNCHANGED <<storage, transaction, modified_transaction, applied_rules,
                   visited, result, heap, updates>>

\* a call returns: visited holds the call, the file when it began and when
\* it returned, and what it gave
CallReturns(p, call, before, r, after) ==
    /\ result' = [result EXCEPT ![p] = r]
    /\ visited' = Append(visited, [p |-> p, call |-> call, before |-> before,
                                   after |-> after, result |-> r])
    /\ pc' = [pc EXCEPT ![p] = "idle"]

\* the list save_rule or delete_rule made of the list it loaded
Changed(p) ==
    IF subject[p].op = "save_rule"
    THEN SaveRuleData(rules[p], subject[p].rule[1])
    ELSE DeleteRuleData(rules[p], subject[p].rule_id)

\* lines 92 and 117: _save_storage is called
NeedsWrite(p, c) ==
    /\ ~c.exc
    /\ subject[p].op = "delete_rule" => Len(c.val) < Len(rules[p].items)

\* line 153, c being the changed list: the file is opened and is empty; the
\* call returns False when there is nothing to write (lines 120-121) or an
\* exception was raised (lines 95-97, 123-125)
OpenWhen(p, c) ==
    IF NeedsWrite(p, c) /\ storage.writable
    THEN /\ storage' = Truncated(storage)
         /\ rules' = [rules EXCEPT ![p] = ListOf(c.val)]
         /\ pc' = [pc EXCEPT ![p] = "opened"]
         /\ UNCHANGED <<result, visited>>
    ELSE /\ CallReturns(p, subject[p], previous[p], Ret(FALSE), storage)
         /\ UNCHANGED <<storage, rules>>

\* save_rule, lines 79-92, delete_rule, lines 113-118, and line 153
ChangeAndOpen(p) ==
    /\ pc[p] = "loaded"
    /\ OpenWhen(p, Changed(p))
    /\ UNCHANGED <<transaction, idx, modified_transaction, applied_rules, previous,
                   subject, heap, updates>>

\* line 154 and the close of the file, dump being what json.dump gave and
\* written the file with that text: the text reaches the file, all of it or
\* the part written before json.dump raised, or none of it when there is no
\* space; the call returns True when nothing was raised
WriteWhen(p, dump, written) ==
    IF storage.full
    THEN /\ CallReturns(p, subject[p], previous[p], Ret(FALSE), storage)
         /\ UNCHANGED <<storage, updates>>
    ELSE /\ storage' = written
         /\ updates' = Append(updates, [p |-> p, items |-> rules[p].items])
         /\ CallReturns(p, subject[p], previous[p], Ret(~dump.exc), written)

\* _save_storage, line 154, and the return of save_rule or delete_rule
WriteAndClose(p) ==
    /\ pc[p] = "opened"
    /\ WriteWhen(p, JsonDump(rules[p].items),
                 WrittenOver(storage, JsonDump(rules[p].items).text))
    /\ UNCHANGED <<transaction, rules, idx, modified_transaction, applied_rules,
                   previous, subject, heap>>

\* what get_all_rules or get_rule_by_id gives
ReadResult(call, disk) ==
    IF call.op = "get_all_rules" THEN GetAllRulesFrom(disk)
    ELSE GetRuleById(disk, call.rule_id)

\* get_all_rules or get_rule_by_id is called and returns or raises
ReadCall(p) ==
    /\ pc[p] = "idle"
    /\ idx < MaxCalls
    /\ \E call \in ReadCalls :
           /\ subject' = [subject EXCEPT ![p] = call]
           /\ CallReturns(p, call, storage, ReadResult(call, storage), storage)
    /\ idx' = idx + 1
    /\ UNCHANGED <<storage, transaction, rules, modified_transaction, applied_rules,
                   previous, heap, updates>>

\* the steps of the processes that use the file
SaveOrDeleteBegins == \E p \in DOMAIN pc : BeginWrite(p, WriteCalls)
FileOpened == \E p \in DOMAIN pc : ChangeAndOpen(p)
FileWritten == \E p \in DOMAIN pc : WriteAndClose(p)
RulesRead == \E p \in DOMAIN pc : ReadCall(p)

NextFile == SaveOrDeleteBegins \/ FileOpened \/ FileWritten \/ RulesRead

SpecFile == InitFile /\ [][NextFile]_vars

\* the records a file holds for _load_storage
StoredRecords(disk) == IF LoadStorage(disk).list THEN LoadStorage(disk).items ELSE <<>>

\* the places of the records of an id
PlacesOf(records, rule_id) == {i \in 1..Len(records) : HasId(records[i], rule_id)}

\* C22: save_rule is an upsert by id: after a save_rule that returned True, a
\* rule of the same id that was stored has been replaced at its place and the
\* number of rules is the same, a rule of a new id has been added at the end;
\* all other records are where they were; and get_rule_by_id of the id gives
\* the rule saved
C22_SaveRuleUpserts ==
    \A n \in 1..Len(visited) :
        LET h == visited[n]
            before == StoredRecords(h.before)
            after == StoredRecords(h.after)
            places == PlacesOf(before, h.call.rule_id)
        IN  (h.call.op = "save_rule" /\ h.result = Ret(TRUE)) =>
                /\ places # {} =>
                      /\ Len(after) = Len(before)
                      /\ \A i \in 1..Len(before) :
                             after[i] = IF i \in places THEN RuleToDict(h.call.rule[1])
                                        ELSE before[i]
                /\ places = {} => after = Append(before, RuleToDict(h.call.rule[1]))
                /\ GetRuleById(h.after, h.call.rule_id) = Ret(h.call.rule[1])

\* a save that replaced the second of two rules by another rule of its id, and
\* a save that added a second rule
C22_Witness ==
    \E n, m \in 1..Len(visited) :
        /\ visited[n].call.op = "save_rule" /\ visited[n].result = Ret(TRUE)
        /\ Len(StoredRecords(visited[n].before)) = 2
        /\ PlacesOf(StoredRecords(visited[n].before), visited[n].call.rule_id) = {2}
        /\ StoredRecords(visited[n].after)[2] # StoredRecords(visited[n].before)[2]
        /\ visited[m].call.op = "save_rule" /\ visited[m].result = Ret(TRUE)
        /\ Len(StoredRecords(visited[m].before)) = 1
        /\ Len(StoredRecords(visited[m].after)) = 2

\* C23: delete_rule returns True if and only if a rule of the id was stored
\* when it was called; after True no stored rule has the id and the other
\* rules are kept in their order; after False the file is exactly what it was
\* when the call began
C23_DeleteRule ==
    \A n \in 1..Len(visited) :
        LET h == visited[n]
            before == StoredRecords(h.before)
            after == StoredRecords(h.after)
        IN  h.call.op = "delete_rule" =>
                /\ h.result \in {Ret(TRUE), Ret(FALSE)}
                /\ h.result = Ret(TRUE) <=> PlacesOf(before, h.call.rule_id) # {}
                /\ h.result = Ret(TRUE) =>
                       after = SelectSeq(before, LAMBDA x : ~HasId(x, h.call.rule_id))
                /\ h.result = Ret(FALSE) => h.after = h.before

\* C24: no call on the Rule Store raises, whatever the file is: get_all_rules
\* gives a list of rules, get_rule_by_id a rule or None, save_rule and
\* delete_rule True or False
C24_NothingEscapes ==
    \A n \in 1..Len(visited) : ~visited[n].result.exc

\* the stores that hold nothing: no file, an empty file, the empty list
EmptyStores == { NoFile, Healthy(<<>>), Healthy(ListText(<<>>)) }

\* the file the first call found
FirstStore == IF visited = <<>> THEN storage ELSE visited[1].before

\* the call did what it was called for: save_rule returned True, delete_rule
\* returned True or found no rule of the id
Succeeded(h) ==
    /\ h.call.op = "save_rule" => h.result = Ret(TRUE)
    /\ h.call.op = "delete_rule" =>
           \/ h.result = Ret(TRUE)
           \/ PlacesOf(StoredRecords(h.before), h.call.rule_id) = {}

\* the rule saved last under the id in the first n calls, None when none was
\* or the id was deleted since
RECURSIVE LastSaved(_, _, _)
LastSaved(history, rule_id, n) ==
    IF n = 0 THEN None
    ELSE IF history[n].call.op = "save_rule" /\ history[n].call.rule_id = rule_id
    THEN history[n].call.rule[1]
    ELSE IF history[n].call.op = "delete_rule" /\ history[n].call.rule_id = rule_id
    THEN None
    ELSE LastSaved(history, rule_id, n - 1)

\* C27: the store is a map keyed by id: after calls of one process that all
\* succeeded, on a store that was empty, no two stored records have the same
\* id; get_rule_by_id gives the rule saved last under the id, None when none
\* was saved or it was deleted since; and every rule get_all_rules gives is
\* the rule get_rule_by_id gives for its id
C27_MapById ==
    (/\ pc[1] = "idle"
     /\ FirstStore \in EmptyStores
     /\ \A n \in 1..Len(visited) : Succeeded(visited[n])) =>
        LET records == StoredRecords(storage)
            all == GetAllRulesFrom(storage)
        IN  /\ \A i, j \in 1..Len(records) :
                   HasId(records[i], records[j].dict[1].id) => i = j
            /\ \A id \in StoreIds :
                   GetRuleById(storage, id) = Ret(LastSaved(visited, id, Len(visited)))
            /\ ~all.exc
            /\ \A k \in 1..Len(all.val) :
                   GetRuleById(storage, all.val[k].id) = Ret(all.val[k])

\* two rules were saved and the first of them was deleted
C27_Witness ==
    /\ pc[1] = "idle"
    /\ FirstStore \in EmptyStores
    /\ Len(visited) = 3
    /\ visited[1].call = SaveRuleCall(LyftRule)
    /\ visited[2].call.op = "save_rule" /\ visited[2].call.rule_id = ride
    /\ visited[3].call = DeleteRuleCall(lyft)
    /\ \A n \in 1..3 : visited[n].result = Ret(TRUE)
    /\ GetRuleById(storage, lyft) = Ret(None)
    /\ GetRuleById(storage, ride) = Ret(visited[2].call.rule[1])

\* C28: a save that failed changed nothing: after a save_rule that returned
\* False, get_all_rules gives what it gave before the call
C28_FailedSaveIsAtomic ==
    \A n \in 1..Len(visited) :
        (visited[n].call.op = "save_rule" /\ visited[n].result = Ret(FALSE)) =>
            GetAllRulesFrom(visited[n].after) = GetAllRulesFrom(visited[n].before)

----------------------------------------------------------------------------
(* A rule is read from the rules file and applied to a transaction          *)

\* an operation Action.apply does not know
UnknownOperation == "frobnicate"

StoredActions ==
    { Action(f, op, v) : f \in ActionField,
                         op \in ActionOperation \cup {UnknownOperation},
                         v \in {StrV(<<"y">>), StrV(Transport)} }

StoredConditions ==
    { Condition("payee_name", "contains", StrV(uber)),
      Condition("memo", "equals", StrV(<<"x">>)) }

\* the action of the rule in the file
StoredAction == storage.text[2].dict[1].actions[1]

InitDecode ==
    /\ \E c \in StoredConditions, a \in StoredActions :
           storage = Healthy(ListText(<<RuleToDict(NamedRule(ride, <<c>>, <<a>>, TRUE, 0))>>))
    /\ transaction \in EngineTransactions
    /\ pc = "stored"
    /\ rules = <<>>
    /\ idx = 0
    /\ modified_transaction = EmptyTransaction
    /\ applied_rules = <<>>
    /\ visited = <<>>
    /\ previous = NoCall
    /\ subject = NoCall
    /\ result = NoResult
    /\ heap = <<>>
    /\ updates = <<>>

\* RulesEngine.load_rules, decoded being what get_all_rules gave
RulesLoadedWhen(decoded) ==
    IF decoded.exc
    THEN result' = Raise /\ pc' = "raised" /\ rules' = rules
    ELSE result' = result /\ pc' = "decoded" /\ rules' = SortedByPriority(decoded.val)

\* RulesEngine.load_rules on the rules file
RulesLoaded ==
    /\ pc = "stored"
    /\ RulesLoadedWhen(GetAllRulesFrom(storage))
    /\ UNCHANGED <<storage, transaction, idx, modified_transaction, applied_rules,
                   visited, previous, subject, heap, updates>>

\* Rule.apply of the rule that was loaded
LoadedRuleApplied ==
    /\ pc = "decoded"
    /\ result' = RuleApply(rules[1], transaction)
    /\ pc' = "applied"
    /\ UNCHANGED <<storage, transaction, rules, idx, modified_transaction,
                   applied_rules, visited, previous, subject, heap, updates>>

NextDecode == RulesLoaded \/ LoadedRuleApplied

SpecDecode == InitDecode /\ [][NextDecode]_vars

\* C25: a stored action whose operation is none of set, append, prepend and
\* clear is rejected when the rule is decoded: loading the rules raises, the
\* rule is never handed to the engine and never applied
C25_UnknownOperationRejected ==
    StoredAction.operation \notin ActionOperation => pc \in {"stored", "raised"}

----------------------------------------------------------------------------
(* Two processes save and delete rules in one rules file                    *)

InitWriters ==
    /\ storage \in { Healthy(ListText(<<>>)), Healthy(ListText(<<RuleToDict(RideRule)>>)),
                     Healthy(TwoRulesText) }
    /\ pc = [p \in {1, 2} |-> "idle"]
    /\ subject = [p \in {1, 2} |-> NoCallYet]
    /\ rules = [p \in {1, 2} |-> ListOf(<<>>)]
    /\ result = [p \in {1, 2} |-> NoResult]
    /\ previous = [p \in {1, 2} |-> storage]
    /\ visited = <<>>
    /\ updates = <<>>
    /\ idx = 0
    /\ transaction = EmptyTransaction
    /\ modified_transaction = EmptyTransaction
    /\ applied_rules = <<>>
    /\ heap = <<>>

WriterBegins == \E p \in DOMAIN pc : BeginWrite(p, WriterCalls)

NextWriters == WriterBegins \/ FileOpened \/ FileWritten

SpecWriters == InitWriters /\ [][NextWriters]_vars

\* C26: last write wins: when both processes have returned, the file holds
\* exactly the list written by the process that wrote last
C26_LastWriteWins ==
    ((\A p \in DOMAIN pc : pc[p] = "idle") /\ updates # <<>>) =>
        storage.text = ListText(updates[Len(updates)].items)

----------------------------------------------------------------------------
(* One call of RulesEngine.process_transaction, run to its end              *)

PassRules ==
    { b \in EngineRules :
          \/ ~b.enabled
          \/ /\ b.conditions[1] \in { Condition("payee_name", "contains", StrV(uber)),
                                      Condition("memo", "regex", StrV(HugeRepeat)) }
             /\ b.actions[1] \in { Action("memo", "set", StrV(<<"y">>)),
                                   Action("category_name", "set", StrV(Transport)) } }

InitPass ==
    /\ \E n \in 0..MaxRules : \E f \in [1..n -> PassRules] :
           storage = [k \in 1..n |-> StoredRule(f[k], k)]
    /\ transaction \in EngineTransactions
    /\ pc = "start"
    /\ rules = <<>>
    /\ idx = 0
    /\ modified_transaction = EmptyTransaction
    /\ applied_rules = <<>>
    /\ visited = <<>>
    /\ previous = NoCall
    /\ subject = NoCall
    /\ result = NoResult
    /\ heap = <<>>
    /\ updates = <<>>

NextPass ==
    \/ LoadRulesStep
    \/ SkipDisabledRule
    \/ RuleDoesNotMatch
    \/ RuleRaises
    \/ RuleApplied
    \/ RuleLeavesRecord
    \/ ReturnStep

\* the call goes on as long as it has a step to take
SpecPass == InitPass /\ [][NextPass]_vars /\ WF_vars(NextPass)

\* the enabled rules among those loaded
EnabledCount(rs) == Cardinality({k \in 1..Len(rs) : rs[k].enabled})

\* no rule is evaluated twice, and neither the rules evaluated nor the rules
\* applied are more than the enabled rules
C29_Bounds ==
    /\ pc \in {"loop", "done", "raised"} => idx \in 1..(Len(rules) + 1)
    /\ \A i, j \in 1..Len(visited) : visited[i].rule.id = visited[j].rule.id => i = j
    /\ Len(visited) <= EnabledCount(rules)
    /\ Len(applied_rules) <= EnabledCount(rules)

\* a step of the loop goes on to the next rule of the same list, or ends the
\* call
C29_Forward ==
    pc = "loop" =>
        \/ pc' = "loop" /\ idx' = idx + 1 /\ rules' = rules
        \/ pc' \in {"done", "raised"}

====
